---- MODULE Spec2Model ----
(***************************************************************************)
(* A model of git-watcher: the artifact publisher                          *)
(* (Manager.UpdateArtifactsRepo), the repository synchronizer              *)
(* (Manager.checkAndUpdateRepo and its helpers) and the scheduled check    *)
(* (Scheduler.runCheck).  The git program is the external tool; a command  *)
(* is one atomic step whose effect on the working copy and on the remote   *)
(* is modelled by what git does, and which may fail.                       *)
(***************************************************************************)
EXTENDS Integers, Sequences, FiniteSets, TLC

(***************************************************************************)
(* Bounds of the model.                                                    *)
(***************************************************************************)
\* publish calls made in one behaviour
MaxCalls == 2
\* external-tool failures the environment injects in one behaviour
MaxFaults == 1
\* scheduled checks run in one behaviour
MaxTicks == 2
\* commits other parties push to the watched repository and its submodules
MaxCommits == 2
MaxStarts == 2

(***************************************************************************)
(* Inputs of publish: callers, source repositories, packages, versions.    *)
(* A version string is the sequence of its dash-delimited segments, which  *)
(* is what strings.Split(version, "-") returns.                            *)
(***************************************************************************)
Procs == {"c1", "c2"}
Repos == {"r1", "r2"}
Pkgs == {"pkg"}
Versions == { <<"1.2.0", "9">>, <<"1.2.0", "10">> }
NoProc == "none"

(***************************************************************************)
(* The artifact repository: branch names, target files, file contents.     *)
(***************************************************************************)
ArtifactsBranch == <<"main">>
AutoBranchName == <<>>
TargetBranch == IF AutoBranchName # <<>> THEN AutoBranchName ELSE ArtifactsBranch
FeatureBranch(repoName) == <<"feature-", repoName>>
Branches == {ArtifactsBranch} \cup {FeatureBranch(r) : r \in Repos}

JsonnetPathShared(repoName) == <<"r1", ".jsonnet">>
JsonnetPath(repoName) == <<repoName, ".jsonnet">>
Files == {<<r, ".jsonnet">> : r \in Repos}

\* a file is absent, holds a JSON document, or holds bytes that do not parse
EmptyDoc == [k \in {} |-> <<>>]
Absent == [kind |-> "absent", doc |-> EmptyDoc]
Garbage == [kind |-> "garbage", doc |-> EmptyDoc]
DocFile(d) == [kind |-> "doc", doc |-> d]
EmptyTree == [f \in Files |-> Absent]

(***************************************************************************)
(* The pure part of UpdateArtifactsRepo.                                   *)
(***************************************************************************)
\* strings.Join(parts[:len(parts)-1], "-")
VersionFamilyWhole(version) == version
VersionFamily(version) == SubSeq(version, 1, Len(version) - 1)

\* os.ReadFile + json.Unmarshal: an unreadable file is an empty document
ParseFails(content) == content.kind = "garbage"
ReadDocument(content) == IF content.kind = "doc" THEN content.doc ELSE EmptyDoc

DocKey(repoName, pkgName, version) == <<repoName, pkgName, VersionFamily(version)>>

\* existingVersion, exists := pkgContent[versionPrefix]; exists && existingVersion == version
AlreadyPublishedNever(doc, repoName, pkgName, version) == FALSE
AlreadyPublished(doc, repoName, pkgName, version) ==
    /\ DocKey(repoName, pkgName, version) \in DOMAIN doc
    /\ doc[DocKey(repoName, pkgName, version)] = version

\* pkgContent[versionPrefix] = version
SetVersion(doc, repoName, pkgName, version) ==
    [k \in DOMAIN doc \cup {DocKey(repoName, pkgName, version)} |->
        IF k = DocKey(repoName, pkgName, version) THEN version ELSE doc[k]]

(***************************************************************************)
(* What git does to trees.                                                 *)
(***************************************************************************)
\* a path with staged or unstaged modifications against the commit checked out
DirtyFile(f, tip, index, wt) == index[f] # tip[f] \/ wt[f] # tip[f]

\* git checkout refuses to overwrite local modifications
CanSwitch(from, to, index, wt) ==
    \A f \in Files : DirtyFile(f, from, index, wt) => from[f] = to[f]

\* the index and the working tree after a switch: clean paths follow the new
\* branch, modified paths are carried over
SwitchFiles(from, to, cur) ==
    [f \in Files |-> IF cur[f] = from[f] THEN to[f] ELSE cur[f]]

\* git merge --no-ff --strategy-option=theirs, one file: a side that did not
\* change the file takes the other side's; when both changed, every entry the
\* incoming side changed wins
MergeDoc(base, ours, theirs) ==
    [k \in DOMAIN ours \cup DOMAIN theirs |->
        IF k \in DOMAIN theirs /\ (k \notin DOMAIN base \/ base[k] # theirs[k])
        THEN theirs[k]
        ELSE IF k \in DOMAIN ours THEN ours[k] ELSE theirs[k]]

MergeFile(base, ours, theirs) ==
    IF theirs = base THEN ours
    ELSE IF ours = base THEN theirs
    ELSE IF ours.kind = "doc" /\ theirs.kind = "doc"
         THEN DocFile(MergeDoc(ReadDocument(base), ours.doc, theirs.doc))
         ELSE theirs

MergeTheirs(base, ours, theirs) ==
    [f \in Files |-> MergeFile(base[f], ours[f], theirs[f])]

(***************************************************************************)
(* State.                                                                  *)
(***************************************************************************)
VARIABLES
    \* publisher: one entry per caller of UpdateArtifactsRepo
    pc,             \* the caller's position in UpdateArtifactsRepo
    args,           \* repoName, pkgName, version of the call
    loc,            \* the call's locals: ls-remote answer, fileLock, new document
    result,         \* what the caller's last call returned
    \* Manager
    artifactsConfigured,  \* m.config.ArtifactsRepo != nil
    gitOpLock,      \* holder of m.gitOpLock
    fileLocksMux,   \* holder of m.fileLocksMux
    fileLocks,      \* m.fileLocks: path -> mutex
    lockHeld,       \* holder of each mutex of the registry
    \* the artifact repository: working copy and remote
    art,
    \* history of the run
    calls,          \* publish calls started
    faults,         \* external failures injected
    ops,            \* what the call in progress has done
    lastRet,        \* the call that returned last
    prevSame,       \* the call in progress repeats the last, successful, call
    written,        \* every entry a publish has written, with the file it went to
    \* synchronizer and scheduler
    cfg,            \* GitConfig: UseSubmodules, AutoCommit, Auth.Type, CommitConfig
    main,           \* the watched repository: working copy, remote, submodules
    run,            \* each runner's position in runCheck and its locals
    sent,           \* the notifications handed to the webhook client
    ticks,          \* checks started
    pushes,         \* commits pushed by other parties
    \* the server process
    boot,           \* main's position, and what ended the process
    conf,           \* the configuration main goes on with
    running,        \* Scheduler.running
    http,           \* the /webhook/trigger handler: request, position, response
    sched,          \* the Scheduler under any caller: stopCh, ctx, tickers, loops
    \* the target file of a publish, as JSON text
    jsonnet            \* its content, and the call of the read-update-write last made

pubVars == <<pc, args, loc, result, artifactsConfigured, gitOpLock, fileLocksMux,
             fileLocks, lockHeld, art, calls, faults, ops, lastRet, prevSame, written>>

pubVarsButFaults == <<pc, args, loc, result, artifactsConfigured, gitOpLock, fileLocksMux,
                      fileLocks, lockHeld, art, calls, ops, lastRet, prevSame, written>>

syncVars == <<cfg, main, run, sent, ticks, pushes>>

srvVars == <<boot, conf, running, http, sched>>

vars == <<pubVars, syncVars, srvVars, jsonnet>>

NoArgs == [repo |-> "", pkg |-> "", version |-> <<>>]
\* config.CommitConfig: UserName, UserEmail, Message; the main-level values
\* and the artifact-level values are told apart by the tag
NoCommitConfig == [userName |-> "", userEmail |-> "", message |-> ""]
CommitConfigs(tag) == [userName : {"", tag}, userEmail : {"", tag}, message : {"", tag}]
NoMessage == [title |-> "", repoName |-> "", version |-> <<>>]
\* the commit identity of the example configuration: a user name, no e-mail
\* address, no message
DefaultCommit == [userName |-> "main", userEmail |-> "", message |-> ""]
NoLoc == [remoteExists |-> FALSE, fileLock |-> 0, doc |-> EmptyDoc,
          commitConfig |-> NoCommitConfig]

\* the remote as the process finds it: one commit on the integration branch,
\* with no target file yet, and possibly a feature branch left by an earlier run
InitTrees == {EmptyTree}
InitRemoteRefs == { [b \in bs |-> 1] :
                      bs \in { {ArtifactsBranch}, {ArtifactsBranch, FeatureBranch("r1")} } }
NoRefs == [b \in {} |-> 0]

InitPub ==
    /\ pc = [p \in Procs |-> "idle"]
    /\ args = [p \in Procs |-> NoArgs]
    /\ loc = [p \in Procs |-> NoLoc]
    /\ result = [p \in Procs |-> "none"]
    /\ artifactsConfigured \in BOOLEAN
    /\ gitOpLock = NoProc
    /\ fileLocksMux = NoProc
    /\ fileLocks = [k \in {} |-> 0]
    /\ lockHeld = [k \in {} |-> NoProc]
    /\ \E t \in InitTrees, r \in InitRemoteRefs :
         art = [cloned |-> FALSE, head |-> ArtifactsBranch,
                commits |-> << [tree |-> t, anc |-> {1}] >>,
                local |-> NoRefs, remote |-> r, track |-> NoRefs,
                index |-> EmptyTree, wt |-> EmptyTree,
                user |-> [name |-> "", email |-> ""], message |-> NoMessage]
    /\ calls = 0
    /\ faults = 0
    /\ ops = [p \in Procs |-> {}]
    /\ lastRet = [args |-> NoArgs, ok |-> FALSE, at |-> ""]
    /\ prevSame = [p \in Procs |-> FALSE]
    /\ written = {}

\* a process started afresh on a remote that an earlier process published
\* version 1.2.0-10 of r1 to: the commit on feature-r1 and its merge into the
\* integration branch
PublishedTree ==
    [EmptyTree EXCEPT ![JsonnetPath("r1")] =
        DocFile(SetVersion(EmptyDoc, "r1", "pkg", <<"1.2.0", "10">>))]
InitPublished ==
    /\ pc = [p \in Procs |-> "idle"]
    /\ args = [p \in Procs |-> NoArgs]
    /\ loc = [p \in Procs |-> NoLoc]
    /\ result = [p \in Procs |-> "none"]
    /\ artifactsConfigured = TRUE
    /\ gitOpLock = NoProc
    /\ fileLocksMux = NoProc
    /\ fileLocks = [k \in {} |-> 0]
    /\ lockHeld = [k \in {} |-> NoProc]
    /\ art = [cloned |-> FALSE, head |-> ArtifactsBranch,
              commits |-> << [tree |-> EmptyTree, anc |-> {1}],
                             [tree |-> PublishedTree, anc |-> {1, 2}],
                             [tree |-> PublishedTree, anc |-> {1, 2, 3}] >>,
              local |-> NoRefs,
              remote |-> (ArtifactsBranch :> 3) @@ (FeatureBranch("r1") :> 2),
              track |-> NoRefs,
              index |-> EmptyTree, wt |-> EmptyTree,
              user |-> [name |-> "", email |-> ""], message |-> NoMessage]
    /\ calls = 0
    /\ faults = 0
    /\ ops = [p \in Procs |-> {}]
    /\ lastRet = [args |-> NoArgs, ok |-> FALSE, at |-> ""]
    /\ prevSame = [p \in Procs |-> FALSE]
    /\ written = {}

(***************************************************************************)
(* Control: moving on, returning, failing.                                 *)
(***************************************************************************)
Goto(p, label) ==
    /\ pc' = [pc EXCEPT ![p] = label]
    /\ UNCHANGED <<result, gitOpLock, lockHeld, lastRet>>

\* defer fileLock.Unlock(): registered once the call holds the file lock
DeferredFileUnlockSkipped(p) == lockHeld
DeferredFileUnlock(p) ==
    [l \in DOMAIN lockHeld |->
        IF l = loc[p].fileLock /\ lockHeld[l] = p THEN NoProc ELSE lockHeld[l]]

\* return: the deferred unlocks run, the file lock first
Return(p, r) ==
    /\ pc' = [pc EXCEPT ![p] = "idle"]
    /\ result' = [result EXCEPT ![p] = r]
    /\ lockHeld' = DeferredFileUnlock(p)
    /\ gitOpLock' = NoProc
    /\ lastRet' = [args |-> args[p], ok |-> r = "ok", at |-> pc[p]]

\* an external command fails: because it cannot succeed here (~possible), or
\* because the environment makes it fail
Fails(p, possible) ==
    IF possible
    THEN /\ faults < MaxFaults
         /\ faults' = faults + 1
         /\ ops' = [ops EXCEPT ![p] = @ \cup {"fault"}]
    ELSE UNCHANGED <<faults, ops>>

Did(p, what) == ops' = [ops EXCEPT ![p] = @ \cup {what}]
FailsDoing(p, what) ==
    /\ faults < MaxFaults
    /\ faults' = faults + 1
    /\ ops' = [ops EXCEPT ![p] = @ \cup {what, "fault"}]

(***************************************************************************)
(* The artifact working copy.                                              *)
(***************************************************************************)
TreeOf(c) == art.commits[c].tree
HeadTree == TreeOf(art.local[art.head])
NewCommit == Len(art.commits) + 1
Maximum(S) == CHOOSE x \in S : \A y \in S : y <= x
MergeBase(a, b) == Maximum(art.commits[a].anc \cap art.commits[b].anc)

\* git clone --branch <branch>: every remote branch becomes a remote-tracking
\* branch, the requested branch is created and checked out
Cloned(branch) ==
    [art EXCEPT !.cloned = TRUE, !.head = branch,
                !.local = [b \in {branch} |-> art.remote[branch]],
                !.track = art.remote,
                !.index = TreeOf(art.remote[branch]),
                !.wt = TreeOf(art.remote[branch])]

\* git checkout <branch>: a local branch, or one created from origin/<branch>
CheckoutStart(branch) ==
    IF branch \in DOMAIN art.local THEN art.local[branch] ELSE art.track[branch]
CanCheckout(branch) ==
    /\ branch \in DOMAIN art.local \cup DOMAIN art.track
    /\ CanSwitch(HeadTree, TreeOf(CheckoutStart(branch)), art.index, art.wt)
CheckedOut(branch) ==
    [art EXCEPT !.head = branch,
                !.local = [b \in DOMAIN art.local \cup {branch} |->
                              IF b = branch THEN CheckoutStart(branch) ELSE art.local[b]],
                !.index = SwitchFiles(HeadTree, TreeOf(CheckoutStart(branch)), art.index),
                !.wt = SwitchFiles(HeadTree, TreeOf(CheckoutStart(branch)), art.wt)]

\* git checkout -b <branch> origin/<branch>
CanCheckoutTracking(branch) ==
    /\ branch \notin DOMAIN art.local
    /\ CanCheckout(branch)

\* git checkout -b <branch>: a new branch at HEAD; the index and the working
\* tree stay as they are
CanCreateBranch(branch) == branch \notin DOMAIN art.local
BranchCreated(branch) ==
    [art EXCEPT !.head = branch,
                !.local = (branch :> art.local[art.head]) @@ art.local]

\* git status --porcelain prints something
PendingAlways == TRUE
Pending == \E f \in Files : art.index[f] # HeadTree[f] \/ art.wt[f] # art.index[f]

\* git commit -m: the index becomes a commit on the current branch
CanCommit == art.index # HeadTree
Committed ==
    [art EXCEPT !.commits = Append(@, [tree |-> art.index,
                                        anc |-> art.commits[art.local[art.head]].anc
                                                  \cup {NewCommit}]),
                !.local = [@ EXCEPT ![art.head] = NewCommit]]

\* git push [-f] origin <branch>
Pushed(branch) ==
    [art EXCEPT !.remote = [b \in DOMAIN @ \cup {branch} |->
                               IF b = branch THEN art.local[branch] ELSE art.remote[b]],
                !.track = [b \in DOMAIN @ \cup {branch} |->
                               IF b = branch THEN art.local[branch] ELSE art.track[b]]]

\* git reset --hard HEAD
HardReset == [art EXCEPT !.index = HeadTree, !.wt = HeadTree]

\* git pull origin <branch>: the remote branch is only ever advanced by pushes
\* from this working copy, so there is nothing to merge
Pulled(branch) ==
    [art EXCEPT !.track = [b \in DOMAIN @ \cup {branch} |->
                              IF b = branch THEN art.remote[branch] ELSE art.track[b]]]

\* git merge --no-ff --strategy-option=theirs <feature>, on the branch checked out
MergedTree(feature) ==
    MergeTheirs(TreeOf(MergeBase(art.local[art.head], art.local[feature])),
                HeadTree, TreeOf(art.local[feature]))
Merged(feature) ==
    IF art.local[feature] \in art.commits[art.local[art.head]].anc
    THEN art
    ELSE [art EXCEPT !.commits = Append(@, [tree |-> MergedTree(feature),
                                             anc |-> art.commits[art.local[art.head]].anc
                                                       \cup art.commits[art.local[feature]].anc
                                                       \cup {NewCommit}]),
                     !.local = [@ EXCEPT ![art.head] = NewCommit],
                     !.index = MergedTree(feature),
                     !.wt = MergedTree(feature)]

(***************************************************************************)
(* Manager.getFileLock and the two mutexes of UpdateArtifactsRepo.         *)
(***************************************************************************)
GitOpLockOpen == TRUE
GitOpLockFree == gitOpLock = NoProc

NewLock == Cardinality(DOMAIN lockHeld) + 1

\* lock, exists := m.fileLocks[filePath]; if !exists { create and store }
GetFileLockFresh(filePath) ==
    [lock |-> NewLock, locks |-> (filePath :> NewLock) @@ fileLocks]
GetFileLock(filePath) ==
    IF filePath \in DOMAIN fileLocks
    THEN [lock |-> fileLocks[filePath], locks |-> fileLocks]
    ELSE [lock |-> NewLock, locks |-> (filePath :> NewLock) @@ fileLocks]

(***************************************************************************)
(* Manager.UpdateArtifactsRepo, one action per step.                       *)
(***************************************************************************)
Feature(p) == FeatureBranch(args[p].repo)
Path(p) == JsonnetPath(args[p].repo)

\* a request arrives: the HTTP server runs the handler on its own goroutine
\* (the goroutines are interchangeable: the first request is served by c1)
Call(p) ==
    /\ pc[p] = "idle"
    /\ calls < MaxCalls
    /\ calls = 0 => p = "c1"
    /\ calls' = calls + 1
    /\ \E r \in Repos, k \in Pkgs, v \in Versions :
         args' = [args EXCEPT ![p] = [repo |-> r, pkg |-> k, version |-> v]]
    /\ loc' = [loc EXCEPT ![p] = NoLoc]
    /\ ops' = [ops EXCEPT ![p] = {}]
    /\ prevSame' = [prevSame EXCEPT ![p] = FALSE]
    /\ pc' = [pc EXCEPT ![p] = "lock"]
    /\ result' = [result EXCEPT ![p] = "none"]
    /\ UNCHANGED <<artifactsConfigured, gitOpLock, fileLocksMux, fileLocks, lockHeld,
                   art, faults, lastRet, written>>
    /\ UNCHANGED <<syncVars, srvVars, jsonnet>>

\* m.gitOpLock.Lock(); defer m.gitOpLock.Unlock()
LockGitOp(p) ==
    /\ pc[p] = "lock"
    /\ GitOpLockFree
    /\ gitOpLock' = p
    /\ prevSame' = [prevSame EXCEPT ![p] = lastRet.ok /\ lastRet.args = args[p]]
    /\ pc' = [pc EXCEPT ![p] = "configured"]
    /\ UNCHANGED <<args, loc, result, artifactsConfigured, fileLocksMux, fileLocks,
                   lockHeld, art, calls, faults, ops, lastRet, written>>
    /\ UNCHANGED <<syncVars, srvVars, jsonnet>>

\* if m.config.ArtifactsRepo == nil
CheckConfigured(p) ==
    /\ pc[p] = "configured"
    /\ \/ ~artifactsConfigured /\ Return(p, "err")
       \/ artifactsConfigured /\ Goto(p, "stat")
    /\ UNCHANGED <<args, loc, artifactsConfigured, fileLocksMux, fileLocks, art,
                   calls, faults, ops, prevSame, written>>
    /\ UNCHANGED <<syncVars, srvVars, jsonnet>>

\* os.Stat(repoPath); m.cloneRepo(m.config.ArtifactsRepo)
EnsureCloned(p) ==
    /\ pc[p] = "stat"
    /\ \/ art.cloned /\ Goto(p, "lsremote") /\ UNCHANGED <<art, faults, ops>>
       \/ ~art.cloned /\ art' = Cloned(ArtifactsBranch) /\ Goto(p, "lsremote")
          /\ UNCHANGED <<faults, ops>>
       \/ ~art.cloned /\ Fails(p, TRUE) /\ Return(p, "err") /\ UNCHANGED art
    /\ UNCHANGED <<args, loc, artifactsConfigured, fileLocksMux, fileLocks,
                   calls, prevSame, written>>
    /\ UNCHANGED <<syncVars, srvVars, jsonnet>>

\* git ls-remote --heads origin feature-<repoName>
LsRemote(p) ==
    /\ pc[p] = "lsremote"
    /\ \/ /\ loc' = [loc EXCEPT ![p].remoteExists = Feature(p) \in DOMAIN art.remote]
          /\ Goto(p, "checkout")
          /\ UNCHANGED <<faults, ops>>
       \/ Fails(p, TRUE) /\ Return(p, "err") /\ UNCHANGED loc
    /\ UNCHANGED <<args, artifactsConfigured, fileLocksMux, fileLocks, art,
                   calls, prevSame, written>>
    /\ UNCHANGED <<syncVars, srvVars, jsonnet>>

\* the remote branch exists: git checkout feature-<repoName>
CheckoutFeature(p) ==
    /\ pc[p] = "checkout"
    /\ loc[p].remoteExists
    /\ \/ /\ CanCheckout(Feature(p))
          /\ art' = CheckedOut(Feature(p))
          /\ Goto(p, "mux")
          /\ UNCHANGED <<faults, ops>>
       \/ Fails(p, CanCheckout(Feature(p))) /\ Goto(p, "checkoutTracking") /\ UNCHANGED art
    /\ UNCHANGED <<args, loc, artifactsConfigured, fileLocksMux, fileLocks,
                   calls, prevSame, written>>
    /\ UNCHANGED <<syncVars, srvVars, jsonnet>>

\* that failed: git checkout -b feature-<repoName> origin/feature-<repoName>
CheckoutTracking(p) ==
    /\ pc[p] = "checkoutTracking"
    /\ \/ /\ CanCheckoutTracking(Feature(p))
          /\ art' = CheckedOut(Feature(p))
          /\ Goto(p, "mux")
          /\ UNCHANGED <<faults, ops>>
       \/ Fails(p, CanCheckoutTracking(Feature(p))) /\ Return(p, "err") /\ UNCHANGED art
    /\ UNCHANGED <<args, loc, artifactsConfigured, fileLocksMux, fileLocks,
                   calls, prevSame, written>>
    /\ UNCHANGED <<syncVars, srvVars, jsonnet>>

\* the remote branch does not exist: git checkout -b feature-<repoName>
CreateFeature(p) ==
    /\ pc[p] = "checkout"
    /\ ~loc[p].remoteExists
    /\ \/ /\ CanCreateBranch(Feature(p))
          /\ art' = BranchCreated(Feature(p))
          /\ Goto(p, "mux")
          /\ UNCHANGED <<faults, ops>>
       \/ Fails(p, CanCreateBranch(Feature(p))) /\ Return(p, "err") /\ UNCHANGED art
    /\ UNCHANGED <<args, loc, artifactsConfigured, fileLocksMux, fileLocks,
                   calls, prevSame, written>>
    /\ UNCHANGED <<syncVars, srvVars, jsonnet>>

\* getFileLock: m.fileLocksMux.Lock()
LockRegistry(p) ==
    /\ pc[p] = "mux"
    /\ fileLocksMux = NoProc
    /\ fileLocksMux' = p
    /\ Goto(p, "registry")
    /\ UNCHANGED <<args, loc, artifactsConfigured, fileLocks, art, calls, faults,
                   ops, prevSame, written>>
    /\ UNCHANGED <<syncVars, srvVars, jsonnet>>

\* getFileLock: look the path up, create its mutex when missing, unlock, return
Registry(p) ==
    /\ pc[p] = "registry"
    /\ fileLocks' = GetFileLock(Path(p)).locks
    /\ loc' = [loc EXCEPT ![p].fileLock = GetFileLock(Path(p)).lock]
    /\ lockHeld' = [l \in DOMAIN lockHeld \cup {GetFileLock(Path(p)).lock} |->
                       IF l \in DOMAIN lockHeld THEN lockHeld[l] ELSE NoProc]
    /\ fileLocksMux' = NoProc
    /\ pc' = [pc EXCEPT ![p] = "fileLock"]
    /\ UNCHANGED <<args, result, artifactsConfigured, gitOpLock, art, calls, faults,
                   ops, lastRet, prevSame, written>>
    /\ UNCHANGED <<syncVars, srvVars, jsonnet>>

\* fileLock.Lock(); defer fileLock.Unlock()
LockFile(p) ==
    /\ pc[p] = "fileLock"
    /\ lockHeld[loc[p].fileLock] = NoProc
    /\ lockHeld' = [lockHeld EXCEPT ![loc[p].fileLock] = p]
    /\ pc' = [pc EXCEPT ![p] = "read"]
    /\ UNCHANGED <<args, loc, result, artifactsConfigured, gitOpLock, fileLocksMux,
                   fileLocks, art, calls, faults, ops, lastRet, prevSame, written>>
    /\ UNCHANGED <<syncVars, srvVars, jsonnet>>

\* read the document, find the package's map, compare the stored version
ReadMerge(p) ==
    /\ pc[p] = "read"
    /\ LET content == art.wt[Path(p)]
           doc == ReadDocument(content)
           a == args[p]
       IN \/ ParseFails(content) /\ Return(p, "err") /\ UNCHANGED loc
          \/ /\ ~ParseFails(content)
             /\ AlreadyPublished(doc, a.repo, a.pkg, a.version)
             /\ Return(p, "ok")
             /\ UNCHANGED loc
          \/ /\ ~ParseFails(content)
             /\ ~AlreadyPublished(doc, a.repo, a.pkg, a.version)
             /\ loc' = [loc EXCEPT ![p].doc = SetVersion(doc, a.repo, a.pkg, a.version)]
             /\ Goto(p, "write")
    /\ UNCHANGED <<args, artifactsConfigured, fileLocksMux, fileLocks, art, calls,
                   faults, ops, prevSame, written>>
    /\ UNCHANGED <<syncVars, srvVars, jsonnet>>

\* json.MarshalIndent + os.WriteFile: the file is truncated, then written, in
\* place; a failure leaves it as it was or cut short
WriteFile(p) ==
    /\ pc[p] = "write"
    /\ \/ /\ art' = [art EXCEPT !.wt[Path(p)] = DocFile(loc[p].doc)]
          /\ written' = written \cup
                {<<Path(p), k, loc[p].doc[k]>> : k \in {DocKey(args[p].repo, args[p].pkg,
                                                                args[p].version)}}
          /\ Did(p, "write")
          /\ Goto(p, "add")
          /\ UNCHANGED faults
       \/ /\ FailsDoing(p, "write")
          /\ \E left \in {art.wt[Path(p)], Garbage} :
                art' = [art EXCEPT !.wt[Path(p)] = left]
          /\ Return(p, "err")
          /\ UNCHANGED written
    /\ UNCHANGED <<args, loc, artifactsConfigured, fileLocksMux, fileLocks, calls,
                   prevSame>>
    /\ UNCHANGED <<syncVars, srvVars, jsonnet>>

\* git add <repoName>.jsonnet
GitAdd(p) ==
    /\ pc[p] = "add"
    /\ \/ /\ art' = [art EXCEPT !.index[Path(p)] = art.wt[Path(p)]]
          /\ Did(p, "add")
          /\ Goto(p, "status")
          /\ UNCHANGED faults
       \/ FailsDoing(p, "add") /\ Return(p, "err") /\ UNCHANGED art
    /\ UNCHANGED <<args, loc, artifactsConfigured, fileLocksMux, fileLocks, calls,
                   prevSame, written>>
    /\ UNCHANGED <<syncVars, srvVars, jsonnet>>

\* mergeCommitConfig: the main-level configuration, each field overwritten by
\* the artifact-level value when that is not empty
mergeCommitConfigMainFirst(mainConfig, artifactsConfig) ==
    LET named == IF mainConfig.userName = ""
                 THEN [mainConfig EXCEPT !.userName = artifactsConfig.userName]
                 ELSE mainConfig
        mailed == IF mainConfig.userEmail = ""
                  THEN [named EXCEPT !.userEmail = artifactsConfig.userEmail]
                  ELSE named
    IN  IF mainConfig.message = ""
        THEN [mailed EXCEPT !.message = artifactsConfig.message]
        ELSE mailed
mergeCommitConfig(mainConfig, artifactsConfig) ==
    LET named == IF artifactsConfig.userName # ""
                 THEN [mainConfig EXCEPT !.userName = artifactsConfig.userName]
                 ELSE mainConfig
        mailed == IF artifactsConfig.userEmail # ""
                  THEN [named EXCEPT !.userEmail = artifactsConfig.userEmail]
                  ELSE named
    IN  IF artifactsConfig.message # ""
        THEN [mailed EXCEPT !.message = artifactsConfig.message]
        ELSE mailed

\* git status --porcelain: nothing pending ends the call; with changes pending
\* the commit configuration is merged
GitStatus(p) ==
    /\ pc[p] = "status"
    /\ \/ /\ Pending
          /\ loc' = [loc EXCEPT ![p].commitConfig =
                                   mergeCommitConfig(cfg.commit, cfg.artifactsCommit)]
          /\ Goto(p, "identity")
          /\ UNCHANGED <<faults, ops>>
       \/ ~Pending /\ Return(p, "ok") /\ UNCHANGED <<loc, faults, ops>>
       \/ Fails(p, TRUE) /\ Return(p, "err") /\ UNCHANGED loc
    /\ UNCHANGED <<args, artifactsConfigured, fileLocksMux, fileLocks, art, calls,
                   prevSame, written>>
    /\ UNCHANGED <<syncVars, srvVars, jsonnet>>

\* git config user.name, git config user.email: each runs only for a value
\* that is not empty, and the first failure ends the call
SetIdentity(p) ==
    /\ pc[p] = "identity"
    /\ LET commitConfig == loc[p].commitConfig
           named == IF commitConfig.userName # ""
                    THEN [art EXCEPT !.user.name = commitConfig.userName]
                    ELSE art
           mailed == IF commitConfig.userEmail # ""
                     THEN [named EXCEPT !.user.email = commitConfig.userEmail]
                     ELSE named
       IN  \/ art' = mailed /\ Goto(p, "commit") /\ UNCHANGED <<faults, ops>>
           \/ /\ commitConfig.userName # ""
              /\ UNCHANGED art
              /\ Fails(p, TRUE) /\ Return(p, "err")
           \/ /\ commitConfig.userEmail # ""
              /\ art' = named
              /\ Fails(p, TRUE) /\ Return(p, "err")
    /\ UNCHANGED <<args, loc, artifactsConfigured, fileLocksMux, fileLocks, calls,
                   prevSame, written>>
    /\ UNCHANGED <<syncVars, srvVars, jsonnet>>

\* the commit message: the configured one, "Update artifacts" when there is
\* none, followed by the repository and the version (the time and the
\* package, which is fixed by the repository here, are left out)
CommitMessage(p) ==
    [title |-> IF loc[p].commitConfig.message = "" THEN "Update artifacts"
                                                   ELSE loc[p].commitConfig.message,
     repoName |-> args[p].repo, version |-> args[p].version]

\* git commit -m <message>
GitCommit(p) ==
    /\ pc[p] = "commit"
    /\ \/ /\ CanCommit
          /\ art' = [Committed EXCEPT !.message = CommitMessage(p)]
          /\ Did(p, "commit")
          /\ Goto(p, "pushFeature")
          /\ UNCHANGED faults
       \/ /\ IF CanCommit THEN FailsDoing(p, "commit")
                          ELSE Did(p, "commit") /\ UNCHANGED faults
          /\ Return(p, "err")
          /\ UNCHANGED art
    /\ UNCHANGED <<args, loc, artifactsConfigured, fileLocksMux, fileLocks, calls,
                   prevSame, written>>
    /\ UNCHANGED <<syncVars, srvVars, jsonnet>>

\* git push -f origin feature-<repoName>
PushFeature(p) ==
    /\ pc[p] = "pushFeature"
    /\ \/ /\ art' = Pushed(Feature(p))
          /\ Did(p, "pushFeature")
          /\ Goto(p, "checkoutTarget")
          /\ UNCHANGED faults
       \/ FailsDoing(p, "pushFeature") /\ Return(p, "err") /\ UNCHANGED art
    /\ UNCHANGED <<args, loc, artifactsConfigured, fileLocksMux, fileLocks, calls,
                   prevSame, written>>
    /\ UNCHANGED <<syncVars, srvVars, jsonnet>>

\* git checkout <targetBranch>
CheckoutTarget(p) ==
    /\ pc[p] = "checkoutTarget"
    /\ \/ /\ CanCheckout(TargetBranch)
          /\ art' = CheckedOut(TargetBranch)
          /\ Did(p, "checkoutTarget")
          /\ Goto(p, "reset")
          /\ UNCHANGED faults
       \/ /\ IF CanCheckout(TargetBranch) THEN FailsDoing(p, "checkoutTarget")
                                          ELSE Did(p, "checkoutTarget") /\ UNCHANGED faults
          /\ Return(p, "err")
          /\ UNCHANGED art
    /\ UNCHANGED <<args, loc, artifactsConfigured, fileLocksMux, fileLocks, calls,
                   prevSame, written>>
    /\ UNCHANGED <<syncVars, srvVars, jsonnet>>

\* git reset --hard HEAD
ResetHard(p) ==
    /\ pc[p] = "reset"
    /\ \/ art' = HardReset /\ Goto(p, "pull") /\ UNCHANGED <<faults, ops>>
       \/ Fails(p, TRUE) /\ Return(p, "err") /\ UNCHANGED art
    /\ UNCHANGED <<args, loc, artifactsConfigured, fileLocksMux, fileLocks, calls,
                   prevSame, written>>
    /\ UNCHANGED <<syncVars, srvVars, jsonnet>>

\* git pull origin <targetBranch>
PullTarget(p) ==
    /\ pc[p] = "pull"
    /\ \/ art' = Pulled(TargetBranch) /\ Goto(p, "merge") /\ UNCHANGED <<faults, ops>>
       \/ Fails(p, TRUE) /\ Return(p, "err") /\ UNCHANGED art
    /\ UNCHANGED <<args, loc, artifactsConfigured, fileLocksMux, fileLocks, calls,
                   prevSame, written>>
    /\ UNCHANGED <<syncVars, srvVars, jsonnet>>

\* the first merge failed: the error is dropped and the merge is tried again
OnFirstMergeFailureReturn == "return"
OnFirstMergeFailure == "mergeAgain"

\* git merge --no-ff --strategy-option=theirs feature-<repoName>
MergeFeature(p) ==
    /\ pc[p] = "merge"
    /\ \/ /\ art' = Merged(Feature(p))
          /\ Did(p, "merge")
          /\ Goto(p, "pushTarget")
          /\ UNCHANGED faults
       \/ /\ FailsDoing(p, "merge")
          /\ IF OnFirstMergeFailure = "return" THEN Return(p, "err")
                                               ELSE Goto(p, OnFirstMergeFailure)
          /\ UNCHANGED art
    /\ UNCHANGED <<args, loc, artifactsConfigured, fileLocksMux, fileLocks, calls,
                   prevSame, written>>
    /\ UNCHANGED <<syncVars, srvVars, jsonnet>>

\* the merge failed: the same command once more, which fails again when what
\* made the first attempt fail is still there; its error is returned
OnMergeFailureContinue == "pushTarget"
OnMergeFailure == "return"

MergeAgain(p) ==
    /\ pc[p] = "mergeAgain"
    /\ \/ /\ art' = Merged(Feature(p))
          /\ Did(p, "merge")
          /\ Goto(p, "pushTarget")
          /\ UNCHANGED faults
       \/ /\ IF OnMergeFailure = "return" THEN Return(p, "err")
                                          ELSE Goto(p, OnMergeFailure)
          /\ UNCHANGED <<art, faults, ops>>
    /\ UNCHANGED <<args, loc, artifactsConfigured, fileLocksMux, fileLocks, calls,
                   prevSame, written>>
    /\ UNCHANGED <<syncVars, srvVars, jsonnet>>

\* git push origin <targetBranch>
PushTarget(p) ==
    /\ pc[p] = "pushTarget"
    /\ \/ /\ art' = Pushed(TargetBranch)
          /\ Did(p, "pushTarget")
          /\ Return(p, "ok")
          /\ UNCHANGED faults
       \/ FailsDoing(p, "pushTarget") /\ Return(p, "err") /\ UNCHANGED art
    /\ UNCHANGED <<args, loc, artifactsConfigured, fileLocksMux, fileLocks, calls,
                   prevSame, written>>
    /\ UNCHANGED <<syncVars, srvVars, jsonnet>>

UpdateArtifactsRepo(p) ==
    \/ LockGitOp(p) \/ CheckConfigured(p) \/ EnsureCloned(p) \/ LsRemote(p)
    \/ CheckoutFeature(p) \/ CheckoutTracking(p) \/ CreateFeature(p)
    \/ LockRegistry(p) \/ Registry(p) \/ LockFile(p) \/ ReadMerge(p) \/ WriteFile(p)
    \/ GitAdd(p) \/ GitStatus(p) \/ SetIdentity(p) \/ GitCommit(p) \/ PushFeature(p)
    \/ CheckoutTarget(p) \/ ResetHard(p) \/ PullTarget(p) \/ MergeFeature(p)
    \/ MergeAgain(p) \/ PushTarget(p)

NextPub == \E p \in Procs : Call(p) \/ UpdateArtifactsRepo(p)

(***************************************************************************)
(* The watched repository.  A commit is a number; main.anc[c] is the set   *)
(* of commits reachable from c.                                            *)
(***************************************************************************)
ConfigBranches == <<"main", "develop">>
BranchSet == {ConfigBranches[i] : i \in 1..Len(ConfigBranches)}
Submodules == <<"s1", "s2">>
SubmoduleSet == {Submodules[i] : i \in 1..Len(Submodules)}
\* the scheduler's goroutine, the trigger handler, and the goroutine that
\* TriggerManualCheck starts
Runners == {"tick"}
Handlers == {"hook"}
Sweepers == {"g1"}
Goroutines == Runners \cup Handlers \cup Sweepers
\* MainRepo.Auth.Type: "none", not set, or a way to authenticate
AuthTypes == {"none", "", "ssh"}

Reach(c) == main.anc[c]
NextCommit == Len(main.anc) + 1

\* git rev-list HEAD..origin/<branch> --count
NewCommitCount(branch) ==
    Cardinality(Reach(main.track[branch]) \ Reach(main.local[main.head]))

\* git clone --branch <branch>
MainCloned(branch) ==
    [main EXCEPT !.cloned = TRUE, !.head = branch,
                 !.local = [b \in {branch} |-> main.remote[branch]],
                 !.track = main.remote]

\* git fetch origin <branch>
MainFetched(branch) ==
    [main EXCEPT !.track = [b \in DOMAIN @ \cup {branch} |->
                               IF b = branch THEN main.remote[branch] ELSE main.track[b]]]

\* git checkout <branch>: a local branch, or one created from origin/<branch>
MainCheckedOut(branch) ==
    [main EXCEPT !.head = branch,
                 !.local = [b \in DOMAIN @ \cup {branch} |->
                               IF b \in DOMAIN main.local THEN main.local[b]
                               ELSE main.track[branch]]]

\* git pull origin <branch>, into the branch checked out: nothing to do, a
\* fast-forward, or a merge commit
MainPulled(branch) ==
    LET mine == main.local[main.head]
        theirs == main.remote[branch]
        fetched == MainFetched(branch)
    IN IF Reach(theirs) \subseteq Reach(mine) THEN fetched
       ELSE IF Reach(mine) \subseteq Reach(theirs)
       THEN [fetched EXCEPT !.local[main.head] = theirs]
       ELSE [fetched EXCEPT !.anc = Append(@, Reach(mine) \cup Reach(theirs) \cup {NextCommit}),
                            !.local[main.head] = NextCommit]

\* git add .
MainStaged == [main EXCEPT !.staged = TRUE, !.dirty = FALSE]

\* git commit on the branch checked out
MainCommitted ==
    [main EXCEPT !.anc = Append(@, Reach(main.local[main.head]) \cup {NextCommit}),
                 !.local[main.head] = NextCommit,
                 !.staged = FALSE]

\* git push origin <branch>: accepted when it is a fast-forward
CanPushMain(branch) ==
    /\ branch \in DOMAIN main.local
    /\ Reach(main.remote[branch]) \subseteq Reach(main.local[branch])
MainPushed(branch) ==
    [main EXCEPT !.remote[branch] = main.local[branch],
                 !.track = [b \in DOMAIN @ \cup {branch} |->
                               IF b = branch THEN main.local[branch] ELSE main.track[b]]]

\* git submodule update --remote on these submodules: the ones that were
\* behind advance, which changes the main working copy
SubmodulesAdvanced(done) ==
    [main EXCEPT !.behind = @ \ done,
                 !.dirty = @ \/ (main.behind \cap done # {})]

NoCall == [branch |-> "", existed |-> FALSE, upToDate |-> FALSE, behind |-> FALSE,
           log |-> <<>>, updated |-> FALSE, err |-> FALSE, done |-> FALSE]
\* a pass over the submodules: the ones attempted, the ones whose update the
\* environment let succeed, the ones that moved to a new commit
\* no command has been given credentials yet
NoCredential == [key |-> "none", overlay |-> "inherit", keyOnDisk |-> FALSE]
NoPass == [tried |-> {}, ok |-> {}, changed |-> {}]
\* prop: the commands commitSubmoduleChangesToMainRepo has run for the branch
IdleRun == [pc |-> "idle", idx |-> 0, updatedBranches |-> <<>>, touched |-> {},
            call |-> NoCall, subUpdated |-> FALSE, pass |-> NoPass, err |-> FALSE,
            prop |-> <<>>]

InitSync ==
    /\ cfg \in [useSubmodules : BOOLEAN, autoCommit : BOOLEAN, authType : {"ssh"}, sshKeyPath : {"id_rsa"}, sshPrivateKey : {""},
                commit : {DefaultCommit}, artifactsCommit : {NoCommitConfig}]
    /\ \E gm \in BOOLEAN :
         main = [cloned |-> FALSE, head |-> ConfigBranches[1], anc |-> << {1} >>,
                 local |-> [b \in {} |-> 0], remote |-> [b \in BranchSet |-> 1],
                 track |-> [b \in {} |-> 0],
                 gitmodules |-> gm, behind |-> {}, dirty |-> FALSE, staged |-> FALSE,
               tmpDirs |-> 0, cred |-> NoCredential]
    /\ run = [w \in Goroutines |-> IdleRun]
    /\ sent = <<>>
    /\ ticks = 0
    /\ pushes = 0


(***************************************************************************)
(* Manager.checkAndUpdateRepo (syncBranch), one action per git command.    *)
(***************************************************************************)
Branch(w) == run[w].call.branch
Logged(w, cmd, ok) == Append(run[w].call.log, [cmd |-> cmd, ok |-> ok])

\* n external commands of the synchronizer fail
Faults(n) == faults + n <= MaxFaults /\ faults' = faults + n
Fault == Faults(1)

\* setupCredentials with an inline SSH key: os.MkdirTemp fails, or the
\* directory is made and os.WriteFile fails, or the key is written and
\* os.RemoveAll, deferred only then, removes the directory on return; with
\* a key file or another authentication type nothing is created
KeyOutcomes ==
    IF cfg.authType = "ssh" /\ cfg.sshKeyPath = "" /\ cfg.sshPrivateKey # ""
    THEN {"removed", "nodir", "leaked"}
    ELSE {"none"}
Cost(k) == IF k \in {"nodir", "leaked"} THEN 1 ELSE 0
\* what setupCredentials puts in cmd.Env: nothing (the command inherits the
\* environment of the process), GIT_ASKPASS with a user name and a password
\* (a basic configuration carries both), or GIT_SSH_COMMAND with the
\* configured key file or with the temporary one
OverlayAlways(k) ==
    CASE cfg.authType = "basic" -> "askpass"
      [] cfg.authType = "ssh" /\ cfg.sshKeyPath # "" -> "keyfile"
      [] cfg.authType = "ssh" /\ cfg.sshPrivateKey # "" -> "tmpkey"
      [] OTHER -> "inherit"
Overlay(k) ==
    CASE cfg.authType = "basic" -> "askpass"
      [] cfg.authType = "ssh" /\ cfg.sshKeyPath # "" -> "keyfile"
      [] k = "removed" -> "tmpkey"
      [] OTHER -> "inherit"
\* whether the temporary key file is on disk when the command starts, after
\* setupCredentials has returned and its deferred os.RemoveAll has run
\* the key file is written in outcome "removed" only, and the os.RemoveAll
\* deferred after the write runs when setupCredentials returns
RemovedOnReturn(k) == k = "removed"
\* whether the temporary key file is on disk when the caller then starts the
\* command
KeyOnDisk(k) == k = "removed" /\ ~RemovedOnReturn(k)
\* tmpDirs: the temporary directories left on disk; cred: what became of the
\* inline key and the environment the command is then run with
setupCredentials(m, k) ==
    [m EXCEPT !.tmpDirs = IF k = "leaked" THEN @ + 1 ELSE @,
              !.cred = [key |-> k, overlay |-> Overlay(k), keyOnDisk |-> KeyOnDisk(k)]]

\* checkAndUpdateRepo returns (updated, err)
SyncReturns(w, existed, log, updated, err) ==
    run' = [run EXCEPT ![w].pc = "afterSync",
                       ![w].call.existed = existed,
                       ![w].call.log = log,
                       ![w].call.updated = updated,
                       ![w].call.err = err,
                       ![w].call.done = TRUE]

\* cloneRepo: the result of the clone; a failure to initialize the submodules
\* is only printed
CloneResultStrict(cloneOk, submodulesOk) == cloneOk /\ submodulesOk
CloneResult(cloneOk, submodulesOk) == cloneOk

\* pullRepo goes on to git pull only when git checkout succeeded
PullAfterCheckoutAlways(checkoutOk) == TRUE
PullAfterCheckout(checkoutOk) == checkoutOk

\* the working copy is missing: cloneRepo
CloneRepo(w) ==
    /\ run[w].pc = "stat"
    /\ ~main.cloned
    /\ \E k \in KeyOutcomes :
       \/ /\ Branch(w) \in DOMAIN main.remote
          /\ main' = setupCredentials(MainCloned(Branch(w)), k)
          /\ IF cfg.useSubmodules
             THEN run' = [run EXCEPT ![w].pc = "cloneSubmodules",
                                     ![w].call.log = Logged(w, "clone", TRUE)]
             ELSE SyncReturns(w, main.cloned, Logged(w, "clone", TRUE), TRUE, FALSE)
          /\ Faults(Cost(k))
       \/ /\ Faults(Cost(k) + (IF Branch(w) \in DOMAIN main.remote THEN 1 ELSE 0))
          /\ SyncReturns(w, main.cloned, Logged(w, "clone", FALSE), FALSE, TRUE)
          /\ main' = setupCredentials(main, k)
    /\ UNCHANGED <<cfg, sent, ticks, pushes>>
    /\ UNCHANGED <<pubVarsButFaults, srvVars, jsonnet>>

\* cloneRepo, main repository with submodules: updateSubmodules
CloneSubmodules(w) ==
    /\ run[w].pc = "cloneSubmodules"
    /\ \/ /\ main.gitmodules
          /\ main' = SubmodulesAdvanced(SubmoduleSet)
          /\ run' = [run EXCEPT ![w].pc = "afterSync",
                                ![w].call.log = Logged(w, "submodules", TRUE),
                                ![w].call.updated = CloneResult(TRUE, TRUE),
                                ![w].call.err = ~CloneResult(TRUE, TRUE),
                                ![w].call.done = TRUE,
                                ![w].pass.changed = main.behind]
          /\ UNCHANGED faults
       \/ /\ IF main.gitmodules THEN Fault ELSE UNCHANGED faults
          /\ SyncReturns(w, run[w].call.existed, Logged(w, "submodules", FALSE),
                         CloneResult(TRUE, FALSE), ~CloneResult(TRUE, FALSE))
          /\ UNCHANGED main
    /\ UNCHANGED <<cfg, sent, ticks, pushes>>
    /\ UNCHANGED <<pubVarsButFaults, srvVars, jsonnet>>

\* hasNewCommits: git fetch origin <branch>
Fetch(w) ==
    /\ run[w].pc = "stat"
    /\ main.cloned
    /\ \E k \in KeyOutcomes :
       \/ /\ Branch(w) \in DOMAIN main.remote
          /\ main' = setupCredentials(MainFetched(Branch(w)), k)
          /\ run' = [run EXCEPT ![w].pc = "revList",
                                ![w].call.existed = main.cloned,
                                ![w].call.upToDate =
                                    /\ Branch(w) \in DOMAIN main.local
                                    /\ Reach(main.remote[Branch(w)])
                                         \subseteq Reach(main.local[Branch(w)]),
                                ![w].call.behind =
                                    ~(Reach(main.remote[Branch(w)])
                                        \subseteq Reach(main.local[main.head])),
                                ![w].call.log = Logged(w, "fetch", TRUE)]
          /\ Faults(Cost(k))
       \/ /\ Faults(Cost(k) + (IF Branch(w) \in DOMAIN main.remote THEN 1 ELSE 0))
          /\ SyncReturns(w, main.cloned, Logged(w, "fetch", FALSE), FALSE, TRUE)
          /\ main' = setupCredentials(main, k)
    /\ UNCHANGED <<cfg, sent, ticks, pushes>>
    /\ UNCHANGED <<pubVarsButFaults, srvVars, jsonnet>>

\* hasNewCommits: git rev-list HEAD..origin/<branch> --count
RevList(w) ==
    /\ run[w].pc = "revList"
    /\ \/ /\ NewCommitCount(Branch(w)) # 0
          /\ run' = [run EXCEPT ![w].pc = "checkout",
                                ![w].call.log = Logged(w, "rev-list", TRUE)]
          /\ UNCHANGED faults
       \/ /\ NewCommitCount(Branch(w)) = 0
          /\ SyncReturns(w, run[w].call.existed, Logged(w, "rev-list", TRUE), FALSE, FALSE)
          /\ UNCHANGED faults
       \/ /\ Fault
          /\ SyncReturns(w, run[w].call.existed, Logged(w, "rev-list", FALSE), FALSE, TRUE)
    /\ UNCHANGED <<cfg, main, sent, ticks, pushes>>
    /\ UNCHANGED <<pubVarsButFaults, srvVars, jsonnet>>

\* pullRepo: git checkout <branch>
Checkout(w) ==
    /\ run[w].pc = "checkout"
    /\ \/ /\ main' = MainCheckedOut(Branch(w))
          /\ run' = [run EXCEPT ![w].pc = "pull",
                                ![w].call.log = Logged(w, "checkout", TRUE)]
          /\ UNCHANGED faults
       \/ /\ Fault
          /\ IF PullAfterCheckout(FALSE)
             THEN run' = [run EXCEPT ![w].pc = "pull",
                                     ![w].call.log = Logged(w, "checkout", FALSE)]
             ELSE SyncReturns(w, run[w].call.existed, Logged(w, "checkout", FALSE), FALSE, TRUE)
          /\ UNCHANGED main
    /\ UNCHANGED <<cfg, sent, ticks, pushes>>
    /\ UNCHANGED <<pubVarsButFaults, srvVars, jsonnet>>

\* pullRepo: git pull origin <branch>
Pull(w) ==
    /\ run[w].pc = "pull"
    /\ \E k \in KeyOutcomes :
       \/ /\ main' = setupCredentials(MainPulled(Branch(w)), k)
          /\ SyncReturns(w, run[w].call.existed, Logged(w, "pull", TRUE), TRUE, FALSE)
          /\ Faults(Cost(k))
       \/ /\ Faults(Cost(k) + 1)
          /\ SyncReturns(w, run[w].call.existed, Logged(w, "pull", FALSE), FALSE, TRUE)
          /\ main' = setupCredentials(main, k)
    /\ UNCHANGED <<cfg, sent, ticks, pushes>>
    /\ UNCHANGED <<pubVarsButFaults, srvVars, jsonnet>>

(***************************************************************************)
(* Manager.CheckAndUpdateRepoBranch after checkAndUpdateRepo, and          *)
(* Scheduler.runCheck around it.                                           *)
(***************************************************************************)
\* runCheck: err == nil appends the branch to updatedBranches
CountsAsUpdated(err, changed) == ~err

\* GetLastCommitHash: git rev-parse HEAD in the working copy
GetLastCommitHash(branch) == IF main.cloned THEN main.local[main.head] ELSE 0

\* CheckAndUpdateRepoBranch returns err
BranchReturns(w, err, subUpdated) ==
    run' = [run EXCEPT ![w].pc = "returned", ![w].err = err,
                       ![w].subUpdated = subUpdated]

\* runCheck, the loop body after the call: the branch is appended when
\* err == nil; then the next branch, or the report after the last one
NextBranch(w) ==
    /\ run[w].pc = "returned"
    /\ LET r == run[w]
           changed == r.call.updated \/ r.pass.changed # {}
           branches == IF CountsAsUpdated(r.err, changed)
                       THEN Append(r.updatedBranches, r.call.branch)
                       ELSE r.updatedBranches
           touched == IF ~r.err /\ changed THEN r.touched \cup {r.call.branch}
                      ELSE r.touched
       IN run' = [run EXCEPT ![w] =
                    IF r.idx < Len(ConfigBranches)
                    THEN [r EXCEPT !.pc = "stat", !.idx = r.idx + 1,
                                   !.updatedBranches = branches, !.touched = touched,
                                   !.call = [NoCall EXCEPT
                                               !.branch = ConfigBranches[r.idx + 1]],
                                   !.subUpdated = FALSE, !.pass = NoPass,
                                   !.err = FALSE, !.prop = <<>>]
                    ELSE [r EXCEPT !.pc = "report", !.updatedBranches = branches,
                                   !.touched = touched, !.subUpdated = FALSE,
                                   !.pass = NoPass, !.err = FALSE, !.prop = <<>>]]
    /\ UNCHANGED <<cfg, main, sent, ticks, pushes, faults>>
    /\ UNCHANGED <<pubVarsButFaults, srvVars, jsonnet>>

\* the scheduler's goroutine at its select, the process alive: the case of
\* ticker.C is taken (Go chooses among the ready cases, so stopCh being
\* closed does not exclude it) and runCheck starts with the first branch of
\* the configuration
StartCheck(w) ==
    /\ boot.pc \in {"serving", "stopping"}
    /\ run[w].pc = "idle"
    /\ ticks < MaxTicks
    /\ ticks' = ticks + 1
    /\ run' = [run EXCEPT ![w] = [IdleRun EXCEPT
                 !.pc = "stat", !.idx = 1,
                 !.call = [NoCall EXCEPT !.branch = ConfigBranches[1]]]]
    /\ UNCHANGED <<cfg, main, sent, pushes, faults>>
    /\ UNCHANGED <<pubVarsButFaults, srvVars, jsonnet>>

\* checkAndUpdateRepo has returned: an error ends the branch check, and so
\* does UseSubmodules = false
AfterSync(w) ==
    /\ run[w].pc = "afterSync"
    /\ \/ run[w].call.err /\ BranchReturns(w, TRUE, FALSE)
       \/ ~run[w].call.err /\ ~cfg.useSubmodules /\ BranchReturns(w, FALSE, FALSE)
       \/ /\ ~run[w].call.err /\ cfg.useSubmodules
          /\ run' = [run EXCEPT ![w].pc = IF run[w].call.updated
                                          THEN "updateSubmodules" ELSE "checkSubmodules"]
    /\ UNCHANGED <<cfg, main, sent, ticks, pushes, faults>>
    /\ UNCHANGED <<pubVarsButFaults, srvVars, jsonnet>>

\* checkAndUpdateSubmodules, the loop: a submodule whose update or whose
\* rev-parse fails is skipped with a warning, and the loop goes on
SubmoduleOutcomes == {"ok", "updateFailed", "hashFailed"}
AfterFailureAbort(rest) == << >>
AfterFailure(rest) == rest

RECURSIVE UpdateEach(_, _)
UpdateEach(todo, outcome) ==
    IF todo = << >> THEN [tried |-> {}, counted |-> {}, advanced |-> {}]
    ELSE LET sm == Head(todo)
             r == UpdateEach(IF outcome[sm] = "ok" THEN Tail(todo)
                             ELSE AfterFailure(Tail(todo)), outcome)
         IN [tried |-> {sm} \cup r.tried,
             counted |-> (IF outcome[sm] = "ok" THEN {sm} ELSE {}) \cup r.counted,
             advanced |-> (IF outcome[sm] # "updateFailed" THEN {sm} ELSE {})
                             \cup r.advanced]

\* the main repository was updated: updateSubmodules, which fails without a
\* .gitmodules file; a failed git submodule update may have moved some
UpdateSubmodules(w) ==
    /\ run[w].pc = "updateSubmodules"
    /\ \/ /\ main.gitmodules
          /\ main' = SubmodulesAdvanced(SubmoduleSet)
          /\ run' = [run EXCEPT ![w].pc = "autoCommit", ![w].subUpdated = TRUE,
                                ![w].pass = [tried |-> SubmoduleSet, ok |-> SubmoduleSet,
                                             changed |-> @.changed \cup main.behind]]
          /\ UNCHANGED faults
       \/ /\ main.gitmodules
          /\ Fault
          /\ \E done \in SUBSET SubmoduleSet \ {SubmoduleSet} :
               main' = SubmodulesAdvanced(done)
          /\ BranchReturns(w, TRUE, FALSE)
       \/ /\ ~main.gitmodules
          /\ BranchReturns(w, TRUE, FALSE)
          /\ UNCHANGED <<main, faults>>
    /\ UNCHANGED <<cfg, sent, ticks, pushes>>
    /\ UNCHANGED <<pubVarsButFaults, srvVars, jsonnet>>

\* the main repository was not updated: checkAndUpdateSubmodules
CheckSubmodules(w) ==
    /\ run[w].pc = "checkSubmodules"
    /\ \/ /\ ~main.gitmodules
          /\ run' = [run EXCEPT ![w].pc = "autoCommit", ![w].subUpdated = FALSE]
          /\ UNCHANGED <<main, faults>>
       \/ /\ main.gitmodules
          /\ Fault
          /\ BranchReturns(w, TRUE, FALSE)
          /\ UNCHANGED main
       \/ /\ main.gitmodules
          /\ \E outcome \in [SubmoduleSet -> SubmoduleOutcomes], statusOk \in BOOLEAN :
               LET r == UpdateEach(Submodules, outcome)
                   failed == {sm \in SubmoduleSet : outcome[sm] # "ok"}
               IN /\ Faults(Cardinality(failed) + (IF statusOk THEN 0 ELSE 1))
                  /\ main' = SubmodulesAdvanced(r.advanced)
                  /\ IF statusOk
                     THEN run' = [run EXCEPT
                            ![w].pc = "autoCommit",
                            ![w].subUpdated = (r.counted # {}),
                            ![w].pass = [tried |-> r.tried,
                                         ok |-> SubmoduleSet \ failed,
                                         changed |-> main.behind \cap r.advanced]]
                     ELSE BranchReturns(w, TRUE, FALSE)
    /\ UNCHANGED <<cfg, sent, ticks, pushes>>
    /\ UNCHANGED <<pubVarsButFaults, srvVars, jsonnet>>

\* CheckAndUpdateRepoBranch: AutoCommit and submodulesUpdated decide whether
\* commitSubmoduleChangesToMainRepo is called
AutoCommit(w) ==
    /\ run[w].pc = "autoCommit"
    /\ IF cfg.autoCommit /\ run[w].subUpdated
       THEN run' = [run EXCEPT ![w].pc = "propagate"]
       ELSE BranchReturns(w, FALSE, run[w].subUpdated)
    /\ UNCHANGED <<cfg, main, sent, ticks, pushes, faults>>
    /\ UNCHANGED <<pubVarsButFaults, srvVars, jsonnet>>

\* git status --porcelain prints something
HasPendingAlways(dirty, staged) == TRUE
HasPending(dirty, staged) == dirty \/ staged

\* the push is made unless Auth.Type is "none"
PushConfiguredWhenSet(authType) == authType \notin {"none", ""}
PushConfigured(authType) == authType # "none"

\* the working copy after a git commit that failed
AfterFailedCommitUnstaged(m) == [m EXCEPT !.staged = FALSE, !.dirty = TRUE]
AfterFailedCommit(m) == m

Ran(w, cmd, ok) == Append(run[w].prop, [cmd |-> cmd, ok |-> ok])

\* commitSubmoduleChangesToMainRepo returns err
PropagateReturns(w, prop, err) ==
    run' = [run EXCEPT ![w].pc = "returned", ![w].err = err, ![w].prop = prop]

\* commitSubmoduleChangesToMainRepo up to git add: git config, git status
\* (nothing pending is no error), listSubmodules, git add .
Propagate(w) ==
    /\ run[w].pc = "propagate"
    /\ \/ /\ ~HasPending(main.dirty, main.staged)
          /\ PropagateReturns(w, Ran(w, "status", TRUE), FALSE)
          /\ UNCHANGED <<main, faults>>
       \/ /\ Fault
          /\ PropagateReturns(w, Ran(w, "status", FALSE), TRUE)
          /\ UNCHANGED main
       \/ /\ HasPending(main.dirty, main.staged)
          /\ \/ /\ main' = MainStaged
                /\ run' = [run EXCEPT ![w].pc = "propCommit",
                                      ![w].prop = Append(Ran(w, "status", TRUE),
                                                         [cmd |-> "add", ok |-> TRUE])]
                /\ UNCHANGED faults
             \/ /\ Fault
                /\ PropagateReturns(w, Append(Ran(w, "status", TRUE),
                                              [cmd |-> "add", ok |-> FALSE]), TRUE)
                /\ UNCHANGED main
    /\ UNCHANGED <<cfg, sent, ticks, pushes>>
    /\ UNCHANGED <<pubVarsButFaults, srvVars, jsonnet>>

\* commitSubmoduleChangesToMainRepo: git commit, which has nothing to commit
\* when nothing is staged
PropCommit(w) ==
    /\ run[w].pc = "propCommit"
    /\ \/ /\ main.staged
          /\ main' = MainCommitted
          /\ IF PushConfigured(cfg.authType)
             THEN run' = [run EXCEPT ![w].pc = "propPush",
                                     ![w].prop = Ran(w, "commit", TRUE)]
             ELSE PropagateReturns(w, Ran(w, "commit", TRUE), FALSE)
          /\ UNCHANGED faults
       \/ /\ IF main.staged THEN Fault ELSE UNCHANGED faults
          /\ main' = AfterFailedCommit(main)
          /\ PropagateReturns(w, Ran(w, "commit", FALSE), TRUE)
    /\ UNCHANGED <<cfg, sent, ticks, pushes>>
    /\ UNCHANGED <<pubVarsButFaults, srvVars, jsonnet>>

\* commitSubmoduleChangesToMainRepo: git push origin <branch>, which the
\* remote rejects when it is not a fast-forward
PropPush(w) ==
    /\ run[w].pc = "propPush"
    /\ \E k \in KeyOutcomes :
       \/ /\ CanPushMain(Branch(w))
          /\ main' = setupCredentials(MainPushed(Branch(w)), k)
          /\ PropagateReturns(w, Ran(w, "push", TRUE), FALSE)
          /\ Faults(Cost(k))
       \/ /\ Faults(Cost(k) + (IF CanPushMain(Branch(w)) THEN 1 ELSE 0))
          /\ PropagateReturns(w, Ran(w, "push", FALSE), TRUE)
          /\ main' = setupCredentials(main, k)
    /\ UNCHANGED <<cfg, sent, ticks, pushes>>
    /\ UNCHANGED <<pubVarsButFaults, srvVars, jsonnet>>

\* runCheck after the loop: no branch in updatedBranches, no notification;
\* else one payload with an entry per branch of updatedBranches
Report(w) ==
    /\ run[w].pc = "report"
    /\ LET updatedBranches == run[w].updatedBranches
           keys == {updatedBranches[i] : i \in 1..Len(updatedBranches)}
       IN IF Len(updatedBranches) = 0
          THEN UNCHANGED sent
          ELSE sent' = Append(sent, [tick |-> ticks,
                                     repoUpdates |-> [b \in keys |-> GetLastCommitHash(b)],
                                     touched |-> run[w].touched])
    /\ run' = [run EXCEPT ![w].pc = "idle"]
    /\ UNCHANGED <<cfg, main, ticks, pushes, faults>>
    /\ UNCHANGED <<pubVarsButFaults, srvVars, jsonnet>>

\* another party pushes a commit to a watched branch
RemoteCommit(b) ==
    /\ pushes < MaxCommits
    /\ pushes' = pushes + 1
    /\ main' = [main EXCEPT !.anc = Append(@, Reach(main.remote[b]) \cup {NextCommit}),
                            !.remote[b] = NextCommit]
    /\ UNCHANGED <<cfg, run, sent, ticks, faults>>
    /\ UNCHANGED <<pubVarsButFaults, srvVars, jsonnet>>

\* another party pushes to a submodule's repository
SubmoduleCommit(sm) ==
    /\ pushes < MaxCommits
    /\ sm \notin main.behind
    /\ pushes' = pushes + 1
    /\ main' = [main EXCEPT !.behind = @ \cup {sm}]
    /\ UNCHANGED <<cfg, run, sent, ticks, faults>>
    /\ UNCHANGED <<pubVarsButFaults, srvVars, jsonnet>>

NextSync ==
    \/ \E w \in Runners :
         \/ StartCheck(w) \/ CloneRepo(w) \/ CloneSubmodules(w) \/ Fetch(w)
         \/ RevList(w) \/ Checkout(w) \/ Pull(w) \/ AfterSync(w)
         \/ UpdateSubmodules(w) \/ CheckSubmodules(w) \/ AutoCommit(w)
         \/ Propagate(w) \/ PropCommit(w) \/ PropPush(w)
         \/ NextBranch(w) \/ Report(w)
    \/ \E b \in BranchSet : RemoteCommit(b)
    \/ \E sm \in SubmoduleSet : SubmoduleCommit(sm)

(***************************************************************************)
(* The server process: main, the configuration it goes on with, and the    *)
(* /webhook/trigger handler.  A string that the code takes apart is a      *)
(* sequence of tokens, "/" being one of them.                              *)
(***************************************************************************)
DefaultConfig == [callbackURL |-> "", checkInterval |-> 10, secret |-> ""]
\* the configuration file: missing, not JSON, or JSON with these fields
ConfigFiles == [kind : {"missing", "malformed"}, config : {DefaultConfig}]
                 \cup [kind : {"json"},
                       config : [callbackURL : {"", "cb"}, checkInterval : {0, 10},
                                 secret : {"", "k"}]]
\* the environment: a variable that is not set is empty or does not exist
Environments == [callbackURL : {"", "cb"},
                 checkInterval : {[exists |-> FALSE, value |-> 0],
                                  [exists |-> TRUE, value |-> 0],
                                  [exists |-> TRUE, value |-> 10]}]

OverrideWithEnv(config, env) ==
    [config EXCEPT
       !.callbackURL = IF env.callbackURL # "" THEN env.callbackURL ELSE @,
       !.checkInterval = IF env.checkInterval.exists THEN env.checkInterval.value ELSE @]

\* validateConfig returns nil
ValidateConfig(config) == config.callbackURL # "" /\ config.checkInterval > 0

\* LoadConfig: read, parse, override with the environment, validate
LoadConfig(file, env) ==
    IF file.kind # "json"
    THEN [err |-> TRUE, config |-> DefaultConfig]
    ELSE [err |-> ~ValidateConfig(OverrideWithEnv(file.config, env)),
          config |-> OverrideWithEnv(file.config, env)]

\* main, when LoadConfig returns an error: a warning, and the default configuration
OnLoadFailureFatal == "fatal"
OnLoadFailure == "defaults"

NoConf == [config |-> DefaultConfig, loaded |-> FALSE]
Booting == [pc |-> "load", fatal |-> ""]
Exited(cause) == [pc |-> "exited", fatal |-> cause]

\* main: LoadConfig, the fallback, OverrideWithEnv
Load ==
    /\ boot.pc = "load"
    /\ \E file \in ConfigFiles, env \in Environments :
         LET r == LoadConfig(file, env)
         IN IF r.err /\ OnLoadFailure = "fatal"
            THEN boot' = Exited("load") /\ UNCHANGED conf
            ELSE /\ boot' = [boot EXCEPT !.pc = "manager"]
                 /\ conf' = [config |-> OverrideWithEnv(IF r.err THEN DefaultConfig
                                                         ELSE r.config, env),
                             loaded |-> ~r.err]
    /\ UNCHANGED <<running, http, sched>>
    /\ UNCHANGED <<pubVars, syncVars, jsonnet>>

\* main: git.NewManager, which fails when the working directory cannot be made
NewManager ==
    /\ boot.pc = "manager"
    /\ \E mkdirOk \in BOOLEAN :
         boot' = IF mkdirOk THEN [boot EXCEPT !.pc = "start"] ELSE Exited("manager")
    /\ UNCHANGED <<conf, running, http, sched>>
    /\ UNCHANGED <<pubVars, syncVars, jsonnet>>

FirstBranch == [IdleRun EXCEPT !.pc = "stat", !.idx = 1,
                               !.call = [NoCall EXCEPT !.branch = ConfigBranches[1]]]

\* main: sched.Start, whose goroutine runs a check at once
Start ==
    /\ boot.pc = "start"
    /\ IF conf.config.checkInterval <= 0
       THEN /\ boot' = Exited("start")
            /\ UNCHANGED <<running, run, ticks>>
       ELSE /\ boot' = [boot EXCEPT !.pc = "serving"]
            /\ running' = TRUE
            /\ ticks' = ticks + 1
            /\ run' = [w \in Goroutines |-> IF w \in Runners THEN FirstBranch ELSE run[w]]
    /\ UNCHANGED <<conf, http, sched>>
    /\ UNCHANGED <<cfg, main, sent, pushes>>
    /\ UNCHANGED <<pubVars, jsonnet>>

\* main: a termination signal arrives, sched.Stop
Stop ==
    /\ boot.pc = "serving"
    /\ boot' = [boot EXCEPT !.pc = "stopping"]
    /\ running' = FALSE
    /\ UNCHANGED <<conf, http, sched>>
    /\ UNCHANGED <<pubVars, syncVars, jsonnet>>

\* the scheduler's loop at its select with stopCh closed: the case of stopCh
\* is taken, the ticker is stopped and the goroutine returns (ctx is
\* cancelled only by main's deferred cancel, as the process ends)
Halt(w) ==
    /\ boot.pc = "stopping"
    /\ ~running
    /\ run[w].pc = "idle"
    /\ run' = [run EXCEPT ![w].pc = "exited"]
    /\ UNCHANGED <<boot, conf, running, http, sched>>
    /\ UNCHANGED <<cfg, main, sent, ticks, pushes>>
    /\ UNCHANGED <<pubVars, jsonnet>>

\* main: server.Shutdown once the handler has answered; the process is
\* followed until no goroutine is in a check
Shutdown ==
    /\ boot.pc = "stopping"
    /\ http.pc = "idle"
    /\ \A w \in Goroutines : run[w].pc \in {"idle", "exited"}
    /\ boot' = Exited("")
    /\ UNCHANGED <<conf, running, http, sched>>
    /\ UNCHANGED <<pubVars, syncVars, jsonnet>>

(***************************************************************************)
(* Client.ValidateWebhook.                                                 *)
(***************************************************************************)
Slash == "/"

\* strings.Split(s, "/")
RECURSIVE Split(_)
Split(s) ==
    IF s = << >> THEN << << >> >>
    ELSE LET rest == Split(Tail(s))
         IN IF Head(s) = Slash THEN << << >> >> \o rest
            ELSE << <<Head(s)>> \o rest[1] >> \o Tail(rest)

\* the branch names of the model, spelled out in tokens
BranchNames == {"main", "develop", "feature", "feature/x"}
Spelling(name) ==
    CASE name = "feature/x" -> <<"feature", Slash, "x">>
      [] OTHER -> <<name>>
Text(tokens) == CHOOSE name \in BranchNames : Spelling(name) = tokens

BranchFields == { << >>, Spelling("develop") }
References == { << >>,
                <<"refs", Slash, "heads", Slash>> \o Spelling("main"),
                <<"refs", Slash, "heads", Slash>> \o Spelling("feature/x"),
                <<"refs", Slash, "tags", Slash, "main">> }
Payloads == [branch : BranchFields, reference : References]
NoPayload == [branch |-> << >>, reference |-> << >>]

\* a request body: JSON with these fields, or bytes that are not JSON
Malformed == [json |-> FALSE, branch |-> << >>, reference |-> << >>]
Bodies == {Malformed} \cup [json : {TRUE}, branch : BranchFields, reference : References]
Secrets == {"k", "guess"}
NoSignature == << >>

\* generateSignature: the HMAC-SHA256 of the payload under the secret, one
\* digest per pair
GenerateSignature(payload, secret) == <<"hmac-sha256", payload, secret>>

Requests == {r \in [signature : {NoSignature} \cup
                                  {GenerateSignature(b, s) : b \in Bodies, s \in Secrets},
                    body : Bodies] :
               r.signature = NoSignature
                 \/ r.signature[2] \in {r.body, Malformed}}
NoRequest == [signature |-> NoSignature, body |-> Malformed]

SignatureDiffersNever(signature, expected) == FALSE
SignatureDiffers(signature, expected) == signature # expected

\* json.Unmarshal, then the branch taken from the reference
Decoded(body) ==
    IF ~body.json
    THEN [err |-> "failed to unmarshal payload", payload |-> NoPayload, parsed |-> TRUE]
    ELSE LET payload == [branch |-> body.branch, reference |-> body.reference]
             parts == Split(payload.reference)
         IN [err |-> "",
             payload |-> IF /\ payload.branch = << >> /\ payload.reference # << >>
                            /\ Len(parts) >= 3
                            /\ parts[1] = <<"refs">> /\ parts[2] = <<"heads">>
                         THEN [payload EXCEPT !.branch = parts[3]]
                         ELSE payload,
             parsed |-> TRUE]

\* ValidateWebhook: the payload and the error; parsed tells whether the body
\* was handed to the JSON decoder
ValidateWebhook(secret, r) ==
    IF secret # "" /\ r.signature = NoSignature
    THEN [err |-> "missing webhook signature", payload |-> NoPayload, parsed |-> FALSE]
    ELSE IF secret # "" /\ SignatureDiffers(r.signature, GenerateSignature(r.body, secret))
    THEN [err |-> "invalid webhook signature", payload |-> NoPayload, parsed |-> FALSE]
    ELSE Decoded(r.body)

(***************************************************************************)
(* The /webhook/trigger handler.                                           *)
(***************************************************************************)
NoResponse == [status |-> 0, text |-> ""]
IdleHandler == [pc |-> "idle", n |-> 0, req |-> NoRequest, parsed |-> FALSE,
                resp |-> NoResponse]

\* a POST to /webhook/trigger arrives while the server listens; the requests
\* followed are those that arrive after the scheduler's first check and
\* before the ticker's next one
Arrive ==
    /\ boot.pc \in {"serving", "stopping"}
    /\ http.pc = "idle"
    /\ http.n < MaxCalls
    /\ \A w \in Runners : run[w].pc = "idle"
    /\ \E r \in Requests :
         http' = [http EXCEPT !.pc = "validate", !.n = @ + 1, !.req = r,
                              !.parsed = FALSE, !.resp = NoResponse]
    /\ UNCHANGED <<boot, conf, running, sched>>
    /\ UNCHANGED <<pubVars, syncVars, jsonnet>>

\* TriggerManualCheck refuses when the scheduler is not running
SchedulerRefusesNever(isRunning) == FALSE
SchedulerRefuses(isRunning) == ~isRunning

Answered(status, text, parsed) ==
    http' = [http EXCEPT !.pc = "idle", !.req = NoRequest, !.parsed = parsed,
                         !.resp = [status |-> status, text |-> text]]

\* the handler up to its first call into the manager or the scheduler
Handle ==
    /\ http.pc = "validate"
    /\ LET v == ValidateWebhook(conf.config.secret, http.req)
       IN \/ /\ v.err # ""
             /\ Answered(400, v.err, v.parsed)
             /\ UNCHANGED run
          \/ /\ v.err = "" /\ v.payload.branch # << >>
             /\ http' = [http EXCEPT !.pc = "checking", !.req = NoRequest,
                                     !.parsed = v.parsed]
             /\ run' = [run EXCEPT !["hook"] =
                          [IdleRun EXCEPT !.pc = "stat",
                                          !.call = [NoCall EXCEPT
                                                      !.branch = Text(v.payload.branch)]]]
          \/ /\ v.err = "" /\ v.payload.branch = << >>
             /\ SchedulerRefuses(running)
             /\ Answered(500, "scheduler is not running", v.parsed)
             /\ UNCHANGED run
          \/ /\ v.err = "" /\ v.payload.branch = << >>
             /\ ~SchedulerRefuses(running)
             /\ \E g \in Sweepers :
                  /\ run[g].pc = "idle"
                  /\ run' = [run EXCEPT ![g] = FirstBranch]
             /\ Answered(200, "Manual check for all branches triggered", v.parsed)
    /\ UNCHANGED <<boot, conf, running, sched>>
    /\ UNCHANGED <<cfg, main, sent, ticks, pushes>>
    /\ UNCHANGED <<pubVars, jsonnet>>

\* CheckAndUpdateRepoBranch has returned to the handler: the error, or the
\* notification and the answer
Respond ==
    /\ http.pc = "checking"
    /\ run["hook"].pc = "returned"
    /\ IF run["hook"].err
       THEN /\ Answered(500, "Failed to update branch", http.parsed)
            /\ UNCHANGED sent
       ELSE /\ Answered(200, "Manual check for branch completed", http.parsed)
            /\ sent' = Append(sent, [branch |-> Branch("hook"),
                                     repoUpdates |-> [k \in {"main"} |->
                                                        GetLastCommitHash(Branch("hook"))]])
    /\ run' = [run EXCEPT !["hook"] = IdleRun]
    /\ UNCHANGED <<boot, conf, running, sched>>
    /\ UNCHANGED <<cfg, main, ticks, pushes>>
    /\ UNCHANGED <<pubVars, jsonnet>>

NextServer ==
    \/ Load \/ NewManager \/ Start \/ Stop \/ Shutdown
    \/ Arrive \/ Handle \/ Respond
    \/ \E w \in Goroutines :
         \/ CloneRepo(w) \/ Fetch(w) \/ RevList(w) \/ Checkout(w) \/ Pull(w)
         \/ AfterSync(w)
    \/ \E w \in Runners \cup Sweepers : NextBranch(w) \/ Report(w)

\* the scheduled check while other parties push to the submodules only
\* the process from its start to its end, with the scheduler's loop and the
\* pushes to the watched repository, and no trigger request
NextScheduler ==
    \/ Load \/ NewManager \/ Start \/ Stop \/ Shutdown
    \/ \E w \in Runners :
         \/ StartCheck(w) \/ Halt(w)
         \/ CloneRepo(w) \/ Fetch(w) \/ RevList(w) \/ Checkout(w) \/ Pull(w)
         \/ AfterSync(w) \/ NextBranch(w) \/ Report(w)
    \/ \E b \in BranchSet : RemoteCommit(b)

NextCommitter ==
    \/ \E w \in Runners :
         \/ StartCheck(w) \/ CloneRepo(w) \/ CloneSubmodules(w) \/ Fetch(w)
         \/ RevList(w) \/ AfterSync(w)
         \/ UpdateSubmodules(w) \/ CheckSubmodules(w) \/ AutoCommit(w)
         \/ Propagate(w) \/ PropCommit(w) \/ PropPush(w)
         \/ NextBranch(w) \/ Report(w)
    \/ \E sm \in SubmoduleSet : SubmoduleCommit(sm)

(***************************************************************************)
(* The target file as JSON text, and the read-update-write of              *)
(* UpdateArtifactsRepo on it, for any content that parses as an object:    *)
(* values are strings, numbers and objects, whatever the level.  A string  *)
(* is held as its dash-delimited segments, a number as its numeral.        *)
(***************************************************************************)
NoMap == << >>
String(s) == [kind |-> "string", str |-> s, num |-> "", map |-> NoMap]
Number(n) == [kind |-> "number", str |-> << >>, num |-> n, map |-> NoMap]
Float(x) == [kind |-> "float64", str |-> << >>, num |-> x, map |-> NoMap]
Object(m) == [kind |-> "object", str |-> << >>, num |-> "", map |-> m]

\* the numerals of the contents considered: one that a float64 holds exactly,
\* and 2^53 + 1, which it does not
Numerals == {"7", "9007199254740993"}
\* the float64 nearest to the numeral (ties to even), named by its shortest numeral
ParseFloat(n) == IF n = "9007199254740993" THEN "9007199254740992" ELSE n
\* strconv.FormatFloat(x, 'f', -1, 64): the shortest numeral that reads back as x
FormatFloat(x) == x

\* json.Unmarshal into map[string]interface{}: a number becomes a float64
RECURSIVE Unmarshal(_)
Unmarshal(v) ==
    CASE v.kind = "number" -> Float(ParseFloat(v.num))
      [] v.kind = "object" -> Object([k \in DOMAIN v.map |-> Unmarshal(v.map[k])])
      [] OTHER -> v
\* json.MarshalIndent
RECURSIVE MarshalIndent(_)
MarshalIndent(v) ==
    CASE v.kind = "float64" -> Number(FormatFloat(v.num))
      [] v.kind = "object" -> Object([k \in DOMAIN v.map |-> MarshalIndent(v.map[k])])
      [] OTHER -> v

\* m[k] = v on a Go map
Put(m, k, v) == [x \in DOMAIN m \cup {k} |-> IF x = k THEN v ELSE m[x]]
\* c, ok := m[k].(map[string]interface{}); if !ok { c = make(...) }
Child(m, k) == IF k \in DOMAIN m /\ m[k].kind = "object" THEN m[k].map ELSE NoMap

\* the versions of the calls: with a build segment, and without any dash
PlainVersions == { <<"1.0">>, <<"2.0">> }
DocVersions == Versions \cup PlainVersions

NoFile == [present |-> FALSE, text |-> Object(NoMap), calls |-> 0, args |-> NoArgs,
           ret |-> ""]

\* git.go:625-668 on the file, without a failure of os.WriteFile: the file is
\* left alone when the entry is there with this version, and rewritten otherwise
UpdateDocument(repoName, pkgName, version) ==
    /\ jsonnet.calls < MaxCalls
    /\ LET versionPrefix == VersionFamily(version)
           existingContent == IF jsonnet.present THEN Unmarshal(jsonnet.text).map ELSE NoMap
           repoContent == Child(existingContent, repoName)
           pkgContent == Child(repoContent, pkgName)
           exists == versionPrefix \in DOMAIN pkgContent
           updated == Put(existingContent, repoName,
                          Object(Put(repoContent, pkgName,
                                     Object(Put(pkgContent, versionPrefix, String(version))))))
           call == [jsonnet EXCEPT !.calls = @ + 1, !.ret = "ok",
                                !.args = [repo |-> repoName, pkg |-> pkgName,
                                          version |-> version]]
       IN IF exists /\ pkgContent[versionPrefix] = String(version)
          THEN jsonnet' = call
          ELSE jsonnet' = [call EXCEPT !.present = TRUE,
                                    !.text = MarshalIndent(Object(updated))]
    /\ UNCHANGED <<pubVars, syncVars, srvVars>>

\* the contents the file starts with: absent, or an object whose values are,
\* at each level, what a publish writes there or something else
FamilyMaps ==
    { NoMap,
      (<<"1.2.0">> :> String(<<"1.2.0", "9">>)),
      (<<"1.2.0">> :> String(<<"1.2.0", "9">>)) @@ (<<"2.0">> :> String(<<"2.0", "1">>)),
      (<<"2.0">> :> Number("7")) }
OtherPackages ==
    { Object(<<"3.0">> :> String(<<"3.0", "4">>)),
      Object(<<"3.0">> :> Number("9007199254740993")) }
PackageMaps ==
    {NoMap}
    \cup { ("pkg" :> v) : v \in {String(<<"legacy">>)} \cup {Object(f) : f \in FamilyMaps} }
    \cup { ("lib" :> w) : w \in OtherPackages }
    \cup { ("pkg" :> Object(f)) @@ ("lib" :> w) : f \in FamilyMaps, w \in OtherPackages }
RepoValues == {Number("7")} \cup {Object(m) : m \in PackageMaps}
Contents ==
    {NoMap}
    \cup { ("r1" :> v) : v \in RepoValues }
    \cup { ("r1" :> v) @@ ("r2" :> Object("pkg" :> Object(<<"1.2.0">> :> String(<<"1.2.0", "3">>))))
           : v \in RepoValues }
InitFile ==
    \/ jsonnet = NoFile
    \/ \E m \in Contents : jsonnet = [NoFile EXCEPT !.present = TRUE, !.text = Object(m)]

NextDocument == \E r \in Repos, k \in Pkgs, v \in DocVersions : UpdateDocument(r, k, v)

(***************************************************************************)
(* The Scheduler as an object, under any caller of Start, Stop and         *)
(* TriggerManualCheck and any owner of the context; runCheck is a call     *)
(* that takes time.  Each successful Start makes a ticker and a loop; the  *)
(* loops read s.ticker without the mutex, so a loop may see any ticker     *)
(* made since it started.                                                  *)
(***************************************************************************)
\* NewScheduler: stopCh made once, open; no ticker, no loop
NewScheduler == [stopCh |-> "open", done |-> FALSE, tickers |-> << >>, loops |-> << >>,
                 manual |-> 0, panicked |-> FALSE, ret |-> [op |-> "", err |-> ""]]

Loops == 1..Len(sched.loops)
\* the tickers a loop may find in s.ticker
Seen(i) == i..Len(sched.tickers)

Outcome(op, err) == [op |-> op, err |-> err]

\* Start refuses a scheduler that is running
AlreadyRunningNever(isRunning) == FALSE
AlreadyRunning(isRunning) == isRunning

\* Scheduler.Start
SchedulerStart ==
    /\ ~sched.panicked
    /\ IF AlreadyRunning(running)
       THEN /\ sched' = [sched EXCEPT !.ret = Outcome("Start", "scheduler is already running")]
            /\ UNCHANGED running
       ELSE IF conf.config.checkInterval <= 0
       THEN /\ sched' = [sched EXCEPT
                           !.ret = Outcome("Start", "check interval must be greater than zero")]
            /\ UNCHANGED running
       ELSE /\ Len(sched.loops) < MaxStarts
            /\ sched' = [sched EXCEPT !.tickers = Append(@, "running"),
                                      !.loops = Append(@, "check"),
                                      !.ret = Outcome("Start", "")]
            /\ running' = TRUE
    /\ UNCHANGED <<boot, conf, http>>
    /\ UNCHANGED <<pubVars, syncVars, jsonnet>>

\* Scheduler.Stop: close(s.stopCh) panics on a channel that is closed
SchedulerStop ==
    /\ ~sched.panicked
    /\ IF ~running
       THEN /\ sched' = [sched EXCEPT !.ret = Outcome("Stop", "")]
            /\ UNCHANGED running
       ELSE IF sched.stopCh = "closed"
       THEN /\ sched' = [sched EXCEPT !.panicked = TRUE,
                                      !.ret = Outcome("Stop", "close of closed channel")]
            /\ UNCHANGED running
       ELSE /\ sched' = [sched EXCEPT !.stopCh = "closed", !.ret = Outcome("Stop", "")]
            /\ running' = FALSE
    /\ UNCHANGED <<boot, conf, http>>
    /\ UNCHANGED <<pubVars, syncVars, jsonnet>>

\* the owner of the context cancels it
Cancel ==
    /\ ~sched.panicked
    /\ ~sched.done
    /\ sched.loops # << >>
    /\ sched' = [sched EXCEPT !.done = TRUE]
    /\ UNCHANGED <<boot, conf, running, http>>
    /\ UNCHANGED <<pubVars, syncVars, jsonnet>>

\* a loop's runCheck returns, and the loop is at its select
CheckDone(i) ==
    /\ ~sched.panicked
    /\ i \in Loops
    /\ sched.loops[i] = "check"
    /\ sched' = [sched EXCEPT !.loops[i] = "select"]
    /\ UNCHANGED <<boot, conf, running, http>>
    /\ UNCHANGED <<pubVars, syncVars, jsonnet>>

\* select, case <-s.ticker.C: a ticker that is not stopped has a tick ready
TickCase(i) ==
    /\ ~sched.panicked
    /\ i \in Loops
    /\ sched.loops[i] = "select"
    /\ \E j \in Seen(i) : sched.tickers[j] = "running"
    /\ sched' = [sched EXCEPT !.loops[i] = "check"]
    /\ UNCHANGED <<boot, conf, running, http>>
    /\ UNCHANGED <<pubVars, syncVars, jsonnet>>

\* select, case <-s.stopCh or case <-ctx.Done(): s.ticker.Stop() and return
HaltCase(i) ==
    /\ ~sched.panicked
    /\ i \in Loops
    /\ sched.loops[i] = "select"
    /\ sched.stopCh = "closed" \/ sched.done
    /\ \E j \in Seen(i) :
         sched' = [sched EXCEPT !.loops[i] = "exited", !.tickers[j] = "stopped"]
    /\ UNCHANGED <<boot, conf, running, http>>
    /\ UNCHANGED <<pubVars, syncVars, jsonnet>>

\* Scheduler.TriggerManualCheck: go s.runCheck() when the scheduler is running
TriggerManualCheck ==
    /\ ~sched.panicked
    /\ IF ~running
       THEN sched' = [sched EXCEPT
                        !.ret = Outcome("TriggerManualCheck", "scheduler is not running")]
       ELSE /\ sched.manual < MaxCalls
            /\ sched' = [sched EXCEPT !.manual = @ + 1,
                                      !.ret = Outcome("TriggerManualCheck", "")]
    /\ UNCHANGED <<boot, conf, running, http>>
    /\ UNCHANGED <<pubVars, syncVars, jsonnet>>

\* a manual runCheck returns and its goroutine ends
ManualDone ==
    /\ ~sched.panicked
    /\ sched.manual > 0
    /\ sched' = [sched EXCEPT !.manual = @ - 1]
    /\ UNCHANGED <<boot, conf, running, http>>
    /\ UNCHANGED <<pubVars, syncVars, jsonnet>>

NextObject ==
    \/ SchedulerStart \/ SchedulerStop \/ Cancel \/ TriggerManualCheck \/ ManualDone
    \/ \E i \in 1..MaxStarts : CheckDone(i) \/ TickCase(i) \/ HaltCase(i)

\* a scheduler just made, not started, with a check interval that is valid
\* or zero
InitScheduled ==
    /\ jsonnet = NoFile
    /\ boot = [Booting EXCEPT !.pc = "start"]
    /\ \E interval \in {0, 10} :
         conf = [config |-> [callbackURL |-> "cb", checkInterval |-> interval,
                             secret |-> ""],
                 loaded |-> TRUE]
    /\ running = FALSE
    /\ http = IdleHandler
    /\ sched = NewScheduler

(***************************************************************************)
(* Specifications: the publisher with its callers, and the scheduled check *)
(* with the parties that push to the watched repository.                   *)
(***************************************************************************)
QuietSync ==
    /\ cfg = [useSubmodules |-> FALSE, autoCommit |-> FALSE, authType |-> "ssh", sshKeyPath |-> "id_rsa", sshPrivateKey |-> "",
              commit |-> DefaultCommit, artifactsCommit |-> NoCommitConfig]
    /\ main = [cloned |-> FALSE, head |-> ConfigBranches[1], anc |-> << {1} >>,
               local |-> [b \in {} |-> 0], remote |-> [b \in BranchSet |-> 1],
               track |-> [b \in {} |-> 0],
               gitmodules |-> FALSE, behind |-> {}, dirty |-> FALSE, staged |-> FALSE,
               tmpDirs |-> 0, cred |-> NoCredential]
    /\ run = [w \in Goroutines |-> IdleRun]
    /\ sent = <<>>
    /\ ticks = 0
    /\ pushes = 0

QuietPub ==
    /\ artifactsConfigured
    /\ art.remote = [b \in {ArtifactsBranch} |-> 1]
    /\ art.commits[1].tree = EmptyTree

\* a server that is up, with no trigger request
QuietProcess ==
    /\ boot = [Booting EXCEPT !.pc = "serving"]
    /\ conf = [config |-> [callbackURL |-> "cb", checkInterval |-> 10, secret |-> ""],
               loaded |-> TRUE]
    /\ running = TRUE
    /\ http = IdleHandler
    /\ sched = NewScheduler
QuietServer == QuietProcess /\ jsonnet = NoFile

\* the process at its start; the watched repository has no submodules, its
\* second branch is ahead of the first, and it has a branch named feature/x
InitServer ==
    /\ jsonnet = NoFile
    /\ cfg = [useSubmodules |-> FALSE, autoCommit |-> FALSE, authType |-> "ssh", sshKeyPath |-> "id_rsa", sshPrivateKey |-> "",
              commit |-> DefaultCommit, artifactsCommit |-> NoCommitConfig]
    /\ main = [cloned |-> FALSE, head |-> ConfigBranches[1], anc |-> << {1}, {1, 2} >>,
               local |-> [b \in {} |-> 0],
               remote |-> [b \in BranchSet \cup {"feature/x"} |->
                             IF b = ConfigBranches[2] THEN 2 ELSE 1],
               track |-> [b \in {} |-> 0],
               gitmodules |-> FALSE, behind |-> {}, dirty |-> FALSE, staged |-> FALSE,
               tmpDirs |-> 0, cred |-> NoCredential]
    /\ run = [w \in Goroutines |-> IdleRun]
    /\ sent = <<>>
    /\ ticks = 0
    /\ pushes = 0
    /\ boot = Booting
    /\ conf = NoConf
    /\ running = FALSE
    /\ http = IdleHandler
    /\ sched = NewScheduler

\* the scheduled check with submodules and automatic commits, under each
\* authentication type
InitCommit ==
    /\ cfg \in [useSubmodules : {TRUE}, autoCommit : {TRUE}, authType : AuthTypes,
                sshKeyPath : {"", "id_rsa"}, sshPrivateKey : {"pem"},
                commit : {DefaultCommit}, artifactsCommit : {NoCommitConfig}]
    /\ main = [cloned |-> FALSE, head |-> ConfigBranches[1], anc |-> << {1} >>,
               local |-> [b \in {} |-> 0], remote |-> [b \in BranchSet |-> 1],
               track |-> [b \in {} |-> 0],
               gitmodules |-> TRUE, behind |-> {}, dirty |-> FALSE, staged |-> FALSE,
               tmpDirs |-> 0, cred |-> NoCredential]
    /\ run = [w \in Goroutines |-> IdleRun]
    /\ sent = <<>>
    /\ ticks = 0
    /\ pushes = 0

\* one caller of the publisher under pairs of commit identities: the
\* main-level one empty or complete, the artifact-level one with each
\* selection of fields, so that every field meets each of the four cases
InitIdentities ==
    /\ cfg \in [useSubmodules : {FALSE}, autoCommit : {FALSE}, authType : {"ssh"}, sshKeyPath : {"id_rsa"}, sshPrivateKey : {""},
                commit : {c \in CommitConfigs("main") :
                            c.userName = c.userEmail /\ c.userEmail = c.message},
                artifactsCommit : CommitConfigs("artifacts")]
    /\ main = [cloned |-> FALSE, head |-> ConfigBranches[1], anc |-> << {1} >>,
               local |-> [b \in {} |-> 0], remote |-> [b \in BranchSet |-> 1],
               track |-> [b \in {} |-> 0],
               gitmodules |-> FALSE, behind |-> {}, dirty |-> FALSE, staged |-> FALSE,
               tmpDirs |-> 0, cred |-> NoCredential]
    /\ run = [w \in Goroutines |-> IdleRun]
    /\ sent = <<>>
    /\ ticks = 0
    /\ pushes = 0

NextIdentity == \E p \in {"c1"} : Call(p) \/ UpdateArtifactsRepo(p)
NextRepublisher == \E p \in {"c1"} : Call(p) \/ UpdateArtifactsRepo(p)

InitPublisher == InitPub /\ QuietSync /\ QuietServer
InitSynchronizer == InitPub /\ QuietPub /\ InitSync /\ QuietServer
InitProcess == InitPub /\ QuietPub /\ InitServer
InitCommitter == InitPub /\ QuietPub /\ InitCommit /\ QuietServer
InitIdentity == InitPub /\ QuietPub /\ InitIdentities /\ QuietServer
InitRepublisher == InitPublished /\ QuietSync /\ QuietServer
InitScheduler == InitPub /\ QuietPub /\ InitServer
InitObject == InitPub /\ QuietPub /\ QuietSync /\ InitScheduled
InitDocument == InitPub /\ QuietPub /\ QuietSync /\ QuietProcess /\ InitFile

SpecPub == InitPublisher /\ [][NextPub]_vars
SpecSync == InitSynchronizer /\ [][NextSync]_vars
SpecServer == InitProcess /\ [][NextServer]_vars
SpecCommitter == InitCommitter /\ [][NextCommitter]_vars
SpecIdentity == InitIdentity /\ [][NextIdentity]_vars
SpecRepublisher == InitRepublisher /\ [][NextRepublisher]_vars
SpecScheduler == InitScheduler /\ [][NextScheduler]_vars
SpecObject == InitObject /\ [][NextObject]_vars
SpecDocument == InitDocument /\ [][NextDocument]_vars
Spec == SpecPub

(***************************************************************************)
(* Properties of the publisher.                                            *)
(***************************************************************************)
\* the version family as the specification words it: the version without its
\* last dash-delimited segment
Family(version) == [i \in 1..(Len(version) - 1) |-> version[i]]
TargetFile(repoName) == <<repoName, ".jsonnet">>

\* every tree there is: the working tree, the index, every commit
AllTrees == {art.wt, art.index} \cup {art.commits[c].tree : c \in 1..Len(art.commits)}

\* the positions between the first and the last step of the publication
InPublication == {"configured", "stat", "lsremote", "checkout", "checkoutTracking",
                  "mux", "registry", "fileLock", "read", "write", "add", "status",
                  "identity", "commit", "pushFeature", "checkoutTarget", "reset",
                  "pull", "merge", "mergeAgain", "pushTarget"}
\* the positions of the read-merge-write cycle on the target file, to the return
InFileCycle == {"read", "write", "add", "status", "identity", "commit", "pushFeature",
                "checkoutTarget", "reset", "pull", "merge", "mergeAgain", "pushTarget"}
Mutations == {"write", "commit", "pushFeature", "merge", "pushTarget"}

\* C1: a publish that repeats the arguments of the publish that returned
\* success just before it writes no file, commits, pushes and merges nothing,
\* and returns success unless an external command was made to fail.
C1_PublishIdempotent ==
    \A p \in Procs :
        prevSame[p] =>
            /\ ops[p] \cap Mutations = {}
            /\ (pc[p] = "idle" /\ "fault" \notin ops[p]) => result[p] = "ok"

\* the repeated call has returned success, the first having gone all the way
\* to the push of the integration branch
C1_Witness ==
    \E p \in Procs :
        /\ prevSame[p] /\ pc[p] = "idle" /\ result[p] = "ok"
        /\ art.remote[TargetBranch] # 1
        /\ FeatureBranch(args[p].repo) \in DOMAIN art.remote

\* C2: no document ever holds two versions of one (repo, package, family),
\* and when a publish has returned success the target file in the working
\* copy holds exactly one entry for its family, with the version published.
C2_FamilyOverwrite ==
    /\ \A t \in AllTrees : \A f \in Files :
          \A k1, k2 \in DOMAIN ReadDocument(t[f]) :
              ( /\ k1[1] = k2[1] /\ k1[2] = k2[2]
                /\ Family(ReadDocument(t[f])[k1]) = Family(ReadDocument(t[f])[k2]) )
              => k1 = k2
    /\ (lastRet.ok /\ gitOpLock = NoProc) =>
          LET a == lastRet.args
              d == ReadDocument(art.wt[TargetFile(a.repo)])
              same == {k \in DOMAIN d : /\ k[1] = a.repo /\ k[2] = a.pkg
                                        /\ Family(d[k]) = Family(a.version)}
          IN /\ Cardinality(same) = 1
             /\ \A k \in same : d[k] = a.version

\* 1.2.0-9 was published and committed, then 1.2.0-10 for the same package
C2_Witness ==
    /\ lastRet.ok /\ gitOpLock = NoProc
    /\ lastRet.args.version = <<"1.2.0", "10">>
    /\ \E t \in AllTrees :
          /\ t[TargetFile(lastRet.args.repo)].kind = "doc"
          /\ \E k \in DOMAIN t[TargetFile(lastRet.args.repo)].doc :
                /\ k[2] = lastRet.args.pkg
                /\ t[TargetFile(lastRet.args.repo)].doc[k] = <<"1.2.0", "9">>

\* C3: at most one caller is between the first and the last step of the
\* publication sequence.
C3_OnePublication ==
    Cardinality({p \in Procs : pc[p] \in InPublication}) <= 1

\* one caller is committing while another, for a different repository, waits
C3_Witness ==
    \E p, q \in Procs :
        /\ pc[p] = "commit" /\ pc[q] = "lock"
        /\ args[p].repo # args[q].repo

\* C4: the lock a caller was handed for a path is the lock the registry holds
\* for that path, a caller in the read-merge-write cycle holds it, and no two
\* callers are in the cycle of the same target file.
C4_FileLock ==
    /\ \A p \in Procs :
          loc[p].fileLock # 0 =>
              /\ TargetFile(args[p].repo) \in DOMAIN fileLocks
              /\ fileLocks[TargetFile(args[p].repo)] = loc[p].fileLock
    /\ \A p \in Procs :
          pc[p] \in InFileCycle => lockHeld[loc[p].fileLock] = p
    /\ \A p, q \in Procs :
          ( /\ pc[p] \in InFileCycle /\ pc[q] \in InFileCycle
            /\ args[p].repo = args[q].repo ) => p = q

\* a second caller is in the cycle of a path whose lock an earlier caller made
C4_Witness ==
    \E p, q \in Procs :
        /\ p # q /\ pc[q] = "read" /\ pc[p] = "idle"
        /\ loc[p].fileLock # 0
        /\ args[p].repo = args[q].repo
        /\ loc[p].fileLock = loc[q].fileLock

\* C5: publishes for different repositories all come to an end, and every
\* entry of a target file is an entry for that file's repository, written
\* there by a publish.
C5_OwnFileOnly ==
    /\ (\E p \in Procs : pc[p] # "idle") => ENABLED NextPub
    /\ \A t \in AllTrees : \A r \in Repos :
          \A k \in DOMAIN ReadDocument(t[TargetFile(r)]) :
              /\ k[1] = r
              /\ <<TargetFile(r), k, ReadDocument(t[TargetFile(r)])[k]>> \in written

\* of two publishes for different repositories in progress at once, one has
\* returned success and the other is pushing the integration branch, which
\* then has both files
C5_Witness ==
    \E p, q \in Procs :
        /\ pc[p] = "idle" /\ result[p] = "ok" /\ pc[q] = "pushTarget"
        /\ calls = 2 /\ lastRet.args = args[p]
        /\ args[p].repo # args[q].repo
        /\ \A r \in Repos : HeadTree[TargetFile(r)].kind = "doc"

\* C6: a caller that has returned holds no lock, and a lock that is held is
\* held by a caller that is still in the publication.
C6_LocksReleased ==
    /\ \A p \in Procs :
          pc[p] \in {"idle", "lock"} =>
              /\ gitOpLock # p
              /\ fileLocksMux # p
              /\ \A l \in DOMAIN lockHeld : lockHeld[l] # p
    /\ \A l \in DOMAIN lockHeld :
          lockHeld[l] # NoProc => gitOpLock = lockHeld[l]

\* a call returned an error while holding the file lock, and the next caller
\* has taken the same file lock
C6_Witness ==
    \E p, q \in Procs :
        /\ p # q /\ pc[p] = "idle" /\ result[p] = "err"
        /\ loc[p].fileLock # 0
        /\ pc[q] = "read" /\ loc[q].fileLock = loc[p].fileLock

\* the document of this tree holds the version of the call under its family
Published(tree, a) ==
    LET f == tree[TargetFile(a.repo)]
        k == <<a.repo, a.pkg, Family(a.version)>>
    IN f.kind = "doc" /\ k \in DOMAIN f.doc /\ f.doc[k] = a.version

\* p's call returns in this step
Returns(p) == pc[p] \notin {"idle", "lock"} /\ pc'[p] = "idle"

C16_Step ==
    /\ \A p \in Procs :
          /\ Returns(p) /\ result'[p] = "err"
             => /\ art'.commits = art.commits /\ art'.local = art.local
                /\ art'.remote = art.remote /\ art'.index = art.index
                /\ pc[p] # "write" => art'.wt = art.wt
          /\ Returns(p) /\ result'[p] = "err" /\ pc[p] \in {"mergeAgain", "pushTarget"}
             => /\ Feature(p) \in DOMAIN art.remote
                /\ art.remote[Feature(p)] = art.local[Feature(p)]
                /\ Published(TreeOf(art.remote[Feature(p)]), args[p])
          /\ Returns(p) /\ result'[p] = "ok" /\ pc[p] = "pushTarget"
             => /\ art.local[Feature(p)] \in art.commits[art'.remote[TargetBranch]].anc
                /\ Published(TreeOf(art'.remote[TargetBranch]), args[p])
          /\ pc[p] = "idle" /\ pc'[p] = "idle" => ops'[p] = ops[p]
    /\ art'.remote[TargetBranch] # art.remote[TargetBranch]
       => \E p \in Procs :
             /\ pc[p] = "pushTarget" /\ Returns(p) /\ result'[p] = "ok"
             /\ Feature(p) \in DOMAIN art.remote
             /\ art.remote[Feature(p)] = art.local[Feature(p)]
             /\ art'.remote[TargetBranch] = art.local[TargetBranch]

\* C16: a call that returns an error changes nothing as it returns and does
\* nothing afterwards; the remote integration branch moves only in a final
\* push that succeeds, made when the feature branch is on the remote; a call
\* that fails at the merge or at the final push leaves the remote feature
\* branch with the version, and a call that returns from the final push
\* without error has merged the feature branch and pushed the version
C16_FailureSemantics == [][C16_Step]_vars

C16_Witness ==
    \E p \in Procs :
        /\ pc[p] = "idle" /\ result[p] = "err"
        /\ {"merge", "fault"} \subseteq ops[p] /\ "pushTarget" \notin ops[p]
        /\ Published(TreeOf(art.remote[Feature(p)]), args[p])
        /\ ~Published(TreeOf(art.remote[TargetBranch]), args[p])

C17_Step ==
    \A p \in Procs :
        /\ Returns(p)
        /\ ~lastRet.ok /\ lastRet.args = args[p]
        /\ lastRet.at \in {"commit", "pushFeature", "mergeAgain", "pushTarget"}
        /\ "fault" \notin ops'[p]
        => /\ result'[p] = "ok"
           /\ Published(TreeOf(art'.remote[TargetBranch]), args[p])

\* C17: a call that repeats the arguments of the call before it, which failed
\* at the commit, the feature push, the merge or the final push, and in which
\* no command is made to fail, returns success with the version in the remote
\* integration branch
C17_RepublishHeals == [][C17_Step]_vars

\* C18: the target file in the working copy is at every moment a complete
\* document (or absent), never cut short
C18_AtomicReplace ==
    \A f \in Files : art.wt[f].kind # "garbage"

(***************************************************************************)
(* Properties of the synchronizer and of the scheduled check.              *)
(***************************************************************************)
Commands(log) == [i \in 1..Len(log) |-> log[i].cmd]
Succeeded(log) == \A i \in 1..Len(log) : log[i].ok
UpdateSteps == <<"fetch", "rev-list", "checkout", "pull">>
Returned(w) == run[w].call.done

\* C7: a call for a branch whose local branch already contains every commit
\* of its remote branch returns updated = false and runs neither a checkout
\* nor a pull, whichever branch the working copy has checked out
C7_NoOpWhenBranchCurrent ==
    \A w \in Runners :
        LET call == run[w].call
        IN Returned(w) /\ call.existed /\ call.upToDate =>
              /\ ~call.updated
              /\ \A i \in 1..Len(call.log) : call.log[i].cmd \notin {"checkout", "pull"}

\* C8: on an existing working copy the commands run are fetch, the count,
\* checkout and pull in that order, each at most once and none after a
\* failure; a failure returns the error and updated = false; updated = true
\* needs all four to succeed, and follows from their success when the remote
\* branch has commits that HEAD does not reach
C8_FetchCheckoutPull ==
    \A w \in Runners :
        LET call == run[w].call
            log == call.log
        IN call.existed =>
              /\ Len(log) <= Len(UpdateSteps)
              /\ Commands(log) = SubSeq(UpdateSteps, 1, Len(log))
              /\ \A i \in 1..Len(log) : ~log[i].ok => i = Len(log) /\ Returned(w)
              /\ Returned(w) =>
                    /\ call.err <=> ~Succeeded(log)
                    /\ call.updated <=> Len(log) = Len(UpdateSteps) /\ Succeeded(log)
                    /\ call.behind /\ Succeeded(log) => call.updated

C8_Witness ==
    \E w \in Runners :
        /\ Returned(w) /\ run[w].call.existed /\ run[w].call.behind
        /\ run[w].call.updated
        /\ Commands(run[w].call.log) = UpdateSteps

\* C9: without a working copy the call clones and nothing else of the update
\* path runs; it returns updated = true exactly when the clone succeeded, and
\* the error exactly when it failed; with submodules enabled a successful
\* clone is followed by the submodule update, whose failure changes neither
C9_CloneWhenAbsent ==
    \A w \in Runners :
        LET call == run[w].call
            log == call.log
        IN Returned(w) /\ ~call.existed =>
              /\ Len(log) >= 1 /\ log[1].cmd = "clone"
              /\ \A i \in 2..Len(log) : log[i].cmd = "submodules"
              /\ Len(log) = (IF log[1].ok /\ cfg.useSubmodules THEN 2 ELSE 1)
              /\ call.updated <=> log[1].ok
              /\ call.err <=> ~log[1].ok

C9_Witness ==
    \E w \in Runners :
        /\ Returned(w) /\ ~run[w].call.existed
        /\ run[w].call.log = << [cmd |-> "clone", ok |-> TRUE],
                                [cmd |-> "submodules", ok |-> FALSE] >>
        /\ run[w].call.updated /\ ~run[w].call.err

\* C10: a tick sends at most one notification; its repoUpdates has an entry
\* for exactly the branches updated in that tick, and a tick that updated no
\* branch sends none
C10_NotifiesUpdatedBranches ==
    /\ \A i, j \in 1..Len(sent) : sent[i].tick = sent[j].tick => i = j
    /\ \A i \in 1..Len(sent) :
          /\ sent[i].touched # {}
          /\ DOMAIN sent[i].repoUpdates = sent[i].touched

\* C11: in a pass of checkAndUpdateSubmodules that reaches its return, every
\* declared submodule was attempted whichever of them failed, and the pass
\* reports anyUpdated = true exactly when at least one submodule succeeded
C11_SkipAndContinue ==
    \A w \in Runners :
        run[w].pc = "autoCommit" /\ ~run[w].call.updated /\ main.gitmodules =>
            /\ run[w].pass.tried = SubmoduleSet
            /\ run[w].subUpdated <=> run[w].pass.ok # {}

C11_Witness ==
    \E w \in Runners :
        /\ run[w].pc = "autoCommit" /\ ~run[w].call.updated /\ main.gitmodules
        /\ run[w].pass.ok # {} /\ run[w].pass.ok # SubmoduleSet
        /\ run[w].subUpdated

\* C12: with submodules enabled and no .gitmodules file, a branch check
\* whose synchronization succeeded returns no error and reports no submodule
\* update, whether or not the main repository was cloned or pulled in it
C12_NoGitmodulesNoOp ==
    \A w \in Runners :
        /\ run[w].pc = "returned" /\ cfg.useSubmodules /\ ~main.gitmodules
        /\ ~run[w].call.err
        => ~run[w].err /\ ~run[w].subUpdated

\* C20: commitSubmoduleChangesToMainRepo is called only with AutoCommit set
\* and after a check in which at least one submodule moved to a new commit
C20_PropagatorOnlyOnChange ==
    \A w \in Runners :
        run[w].pc = "propagate" => cfg.autoCommit /\ run[w].pass.changed # {}

\* goroutine w takes a step
Steps(w) == run'[w] # run[w]
InPropagation == {"propagate", "propCommit", "propPush"}
LastRan(w) == run[w].prop[Len(run[w].prop)]

C21_Step ==
    \A w \in Runners :
        /\ run[w].pc = "propagate" /\ Steps(w)
        /\ ~main.dirty /\ ~main.staged
        /\ faults' = faults
        => /\ run'[w].pc = "returned" /\ ~run'[w].err
           /\ main' = main
           /\ Commands(run'[w].prop) = <<"status">>

\* C21: with nothing pending in the main working copy, and git status
\* answering, commitSubmoduleChangesToMainRepo returns without error having
\* run git status only, and the working copy and the remote are as before
C21_NothingPendingNoOp == [][C21_Step]_vars

C21_Witness ==
    \E w \in Runners :
        /\ run[w].pc = "returned" /\ ~run[w].err
        /\ cfg.autoCommit /\ run[w].subUpdated
        /\ run[w].prop = << [cmd |-> "status", ok |-> TRUE] >>

C23_State ==
    \A w \in Runners :
        /\ run[w].pc = "propCommit" => main.staged
        /\ run[w].pc = "returned" /\ run[w].prop # << >> /\ ~LastRan(w).ok
           => /\ run[w].err
              /\ LastRan(w).cmd = "commit" => main.staged
              /\ \A i \in 1..(Len(run[w].prop) - 1) : run[w].prop[i].ok

C23_Step ==
    \A w \in Runners :
        /\ run[w].pc \in InPropagation /\ Steps(w)
        /\ ~run'[w].prop[Len(run'[w].prop)].ok
        => /\ run'[w].pc = "returned" /\ run'[w].err
           /\ main' = main

\* C23: a command of commitSubmoduleChangesToMainRepo that fails ends the call
\* with an error in that step, after which the branch check has returned the
\* error; the step changes nothing of the working copy or the remote, so what
\* was staged stays staged and a commit that was made stays
C23_PropagationAborts == []C23_State /\ [][C23_Step]_vars

C23_Witness ==
    \E w \in Runners :
        /\ run[w].pc = "returned" /\ run[w].err
        /\ Commands(run[w].prop) = <<"status", "add", "commit", "push">>
        /\ ~LastRan(w).ok
        /\ ~main.staged
        /\ ~(Reach(main.local[main.head]) \subseteq Reach(main.remote[main.head]))

\* C27: when the feature branch is not on the remote, the call, unless a
\* command is made to fail, puts the working copy on a local branch
\* feature-<repo> made from HEAD and goes on to the target file, whatever
\* earlier calls left behind; and the target file is read and written only
\* with feature-<repo> checked out.
C27_State == \A p \in Procs : pc[p] \in {"read", "write"} => art.head = Feature(p)
C27_Step ==
    \A p \in Procs :
        /\ pc[p] = "checkout" /\ ~loc[p].remoteExists
        /\ pc'[p] # pc[p] /\ faults' = faults
        => pc'[p] = "mux" /\ art'.head = Feature(p)
C27_FreshFeatureBranch == []C27_State /\ [][C27_Step]_vars

\* C28: when git status shows nothing pending after the target file is
\* staged, the call returns success having made no commit, push, checkout of
\* the integration branch or merge: the working copy and the remote stay as
\* they are.
C28_Step ==
    \A p \in Procs :
        /\ pc[p] = "status" /\ art.index = HeadTree /\ art.wt = art.index
        /\ pc'[p] # pc[p] /\ faults' = faults
        => /\ Returns(p) /\ result'[p] = "ok"
           /\ art' = art
           /\ ops'[p] \cap {"commit", "pushFeature", "merge", "pushTarget"} = {}
C28_NothingPendingReturns == [][C28_Step]_vars

C28_Witness ==
    /\ lastRet.ok /\ lastRet.at = "status"
    /\ \E p \in Procs : pc[p] = "idle" /\ result[p] = "ok" /\ args[p] = lastRet.args

\* C29: the merge of the feature branch into the integration branch is
\* tried at most twice, the second time as the first; an error is returned
\* only when both attempts failed; and the integration branch is pushed only
\* after an attempt succeeded, with checkout, reset --hard and pull before
\* the merge, in that order.
C29_Step ==
    \A p \in Procs :
        pc'[p] # pc[p] =>
            /\ pc[p] = "merge" => pc'[p] \in {"pushTarget", "mergeAgain"}
            /\ pc[p] = "mergeAgain" =>
                  \/ pc'[p] = "pushTarget"
                  \/ Returns(p) /\ result'[p] = "err" /\ art' = art
            /\ pc'[p] = "mergeAgain" => pc[p] = "merge" /\ art' = art
            /\ pc'[p] = "pushTarget" =>
                  /\ pc[p] \in {"merge", "mergeAgain"}
                  /\ art.head = TargetBranch
                  /\ art' = Merged(Feature(p))
            /\ pc'[p] = "merge" => pc[p] = "pull"
            /\ pc'[p] = "pull" => pc[p] = "reset"
            /\ pc'[p] = "reset" => pc[p] = "checkoutTarget" /\ art'.head = TargetBranch
            /\ art'.remote[TargetBranch] # art.remote[TargetBranch] => pc[p] = "pushTarget"
C29_MergeTwiceThenPush == [][C29_Step]_vars

\* the first merge of a call failed, the second succeeded, and the call is
\* about to push the integration branch
C29_Witness ==
    \E p \in Procs :
        /\ pc[p] = "pushTarget" /\ "fault" \in ops[p] /\ ~loc[p].remoteExists
        /\ calls = 1 /\ faults = 1
        /\ art.head = TargetBranch
        /\ art.local[Feature(p)] \in art.commits[art.local[TargetBranch]].anc

\* the value the commit identity takes for a field: the artifact-level one
\* when it is not empty, the main-level one otherwise
Preferred(field) ==
    IF cfg.artifactsCommit[field] # "" THEN cfg.artifactsCommit[field]
                                       ELSE cfg.commit[field]

\* C24: under every pair of main-level and artifact-level commit identities,
\* each field of the merged identity is the artifact-level value when that is
\* not empty and the main-level value otherwise, and an empty artifact-level
\* identity leaves the main-level one as it is; the working copy's user and
\* the commit's message are the merged ones.
C24_IdentityMerge ==
    /\ \A p \in Procs :
          pc[p] \in {"identity", "commit"} =>
              /\ \A f \in {"userName", "userEmail", "message"} :
                    loc[p].commitConfig[f] = Preferred(f)
              /\ cfg.artifactsCommit = NoCommitConfig =>
                    loc[p].commitConfig = cfg.commit
              /\ pc[p] = "commit" =>
                    art.user = [name |-> Preferred("userName"),
                                email |-> Preferred("userEmail")]
    /\ art.message # NoMessage =>
          art.message.title = (IF Preferred("message") = "" THEN "Update artifacts"
                                                            ELSE Preferred("message"))

\* a commit made under a complete main-level identity and an artifact-level
\* identity that names only the user
C24_Witness ==
    /\ cfg.commit = [userName |-> "main", userEmail |-> "main", message |-> "main"]
    /\ cfg.artifactsCommit = [userName |-> "artifacts", userEmail |-> "", message |-> ""]
    /\ art.user = [name |-> "artifacts", email |-> "main"]
    /\ art.message.title = "main"
    /\ \E p \in Procs : pc[p] = "pushFeature"

\* C25: with an inline SSH key, every temporary key directory that
\* setupCredentials creates is removed again, so none remains on disk after an
\* operation on the watched repository, whether it succeeded or failed.
C25_NoKeyMaterialLeft ==
    (\A w \in Goroutines : run[w].pc \in {"idle", "returned"}) => main.tmpDirs = 0

\* C26: after a pass of checkAndUpdateSubmodules, anyUpdated is true only if
\* some submodule's update succeeded and moved it to another revision than
\* it had before the pass; a pass whose updates all succeed and move nothing
\* returns anyUpdated = false.
C26_AnyUpdatedMeansAdvanced ==
    \A w \in Goroutines :
        run[w].pc = "autoCommit" /\ ~run[w].call.updated /\ run[w].subUpdated
            => run[w].pass.ok \cap run[w].pass.changed # {}

\* C30: once main has called Stop, the scheduler's loop begins no further
\* check; the check in flight at that moment is left to run.
C30_Step ==
    /\ boot.pc = "serving" /\ boot'.pc = "stopping" => run' = run
    /\ \A w \in Runners :
          boot.pc = "stopping" /\ run[w].pc = "idle"
              => run'[w].pc \in {"idle", "exited"}
C30_NoCheckAfterStop == [][C30_Step]_vars

(***************************************************************************)
(* Properties of the Scheduler object.                                     *)
(***************************************************************************)
InCheck == {i \in Loops : sched.loops[i] = "check"}
Alive == {i \in Loops : sched.loops[i] # "exited"}

\* C31: at no time are two of the scheduler's loops inside runCheck; only a
\* manual check overlaps a scheduled one.
C31_ScheduledChecksSerialized == Cardinality(InCheck) <= 1

\* a step of Start: it sets the result of Start or adds a loop
StartReturns ==
    /\ sched'.ret.op = "Start"
    /\ sched'.ret # sched.ret \/ Len(sched'.loops) # Len(sched.loops)

\* C32: Start on a running scheduler, or with a check interval that is not
\* positive, returns an error and makes no ticker and no loop and leaves the
\* running flag; any other Start returns nil, sets the flag and makes one
\* ticker and one loop, which is in its first check; a loop enters a check
\* afterwards only from its select.
C32_Step ==
    /\ StartReturns =>
         IF running \/ conf.config.checkInterval <= 0
         THEN /\ sched'.ret.err # ""
              /\ sched'.tickers = sched.tickers /\ sched'.loops = sched.loops
              /\ running' = running
         ELSE /\ sched'.ret.err = ""
              /\ running'
              /\ sched'.tickers = Append(sched.tickers, "running")
              /\ sched'.loops = Append(sched.loops, "check")
    /\ \A i \in Loops :
         sched'.loops[i] = "check" /\ sched.loops[i] # "check" => sched.loops[i] = "select"
C32_StartContract == [][C32_Step]_vars

\* Start was refused on a running scheduler whose one loop is at its select
C32_Witness ==
    /\ sched.ret = Outcome("Start", "scheduler is already running")
    /\ running /\ sched.loops = << "select" >> /\ sched.tickers = << "running" >>

\* C35: whatever the calls of Start and Stop, stopCh is closed at most once:
\* Stop never panics.
C35_StopNeverPanics == ~sched.panicked

\* C36: the running flag is not set while no loop is alive.
C36_RunningMeansLoopAlive == running => Alive # {}

\* runner w runs a command that setupCredentials has prepared
Credentialed(w) == run[w].pc \in {"stat", "pull", "propPush"} /\ run'[w] # run[w]
\* the commands runner w has run, in its check of the branch and in the
\* propagation
CommandsRun(r) == Len(r.call.log) + Len(r.prop)

\* C33: when the inline key cannot be written to a temporary file (no
\* directory, or no file in it), the command is given no credential
\* environment and is run all the same: the step adds the command to what
\* the runner has run.
C33_Step ==
    \A w \in Runners :
        Credentialed(w) /\ main'.cred.key \in {"nodir", "leaked"}
        => /\ main'.cred.overlay = "inherit"
           /\ CommandsRun(run'[w]) = CommandsRun(run[w]) + 1
C33_KeyFailureRunsWithoutOverlay == [][C33_Step]_vars

\* the key could not be written, and the fetch ran without overlay and
\* succeeded: hasNewCommits goes on to git rev-list
C33_Witness ==
    \E w \in Runners :
        /\ main.cred.key = "leaked" /\ main.cred.overlay = "inherit"
        /\ run[w].pc = "revList" /\ ~run[w].call.done
        /\ run[w].call.log # << >>
        /\ run[w].call.log[Len(run[w].call.log)] = [cmd |-> "fetch", ok |-> TRUE]

\* C34: a command given the temporary key file finds that file on disk.
C34_KeyFileThereForCommand == main.cred.overlay = "tmpkey" => main.cred.keyOnDisk

\* C39: when the propagation makes a commit for a branch, that branch is the
\* one checked out in the main working copy.
C39_Step ==
    \A w \in Runners :
        run[w].pc = "propCommit" /\ Len(main'.anc) > Len(main.anc)
        => main.head = Branch(w)
C39_CommitOnCheckedBranch == [][C39_Step]_vars

\* the head of a branch in the working copy: of the local branch, or of
\* origin/<branch> when there is no local one
HeadOf(b) == IF b \in DOMAIN main.local THEN main.local[b] ELSE main.track[b]

\* C40: the notification built after a check holds, for each branch in it,
\* the head of that branch in the working copy.
C40_Step ==
    Len(sent') > Len(sent)
    => LET repoUpdates == sent'[Len(sent')].repoUpdates
       IN \A b \in DOMAIN repoUpdates : repoUpdates[b] = HeadOf(b)
C40_HashOfEachBranch == [][C40_Step]_vars

(***************************************************************************)
(* Properties of the read-update-write of the target file.                 *)
(***************************************************************************)
\* the entries of a JSON text three levels down: repository, package, family
\* key and the value held there
Entries(text) ==
    UNION { UNION { { <<r, k, f, text.map[r].map[k].map[f]>> :
                        f \in DOMAIN Child(Child(text.map, r), k) } :
                    k \in DOMAIN Child(text.map, r) } :
            r \in DOMAIN text.map }
\* the call of this step
Updates == jsonnet'.calls = jsonnet.calls + 1
Dashless(version) == Len(version) = 1

\* C37: a publish of a version without a dash leaves in place the entry of
\* every other dash-less version of the same repository and package: the two
\* have keys of their own.
C37_Step ==
    Updates /\ Dashless(jsonnet'.args.version)
    => \A e \in Entries(jsonnet.text) :
          /\ e[1] = jsonnet'.args.repo /\ e[2] = jsonnet'.args.pkg
          /\ e[4].kind = "string" /\ Dashless(e[4].str)
          /\ e[4].str # jsonnet'.args.version
          => e \in Entries(jsonnet'.text)
C37_DashlessVersionsKeepApart == [][C37_Step]_vars

\* C38: a publish leaves every entry of the file other than the one of its
\* repository, package and family with the value it had.
C38_Step ==
    Updates
    => \A e \in Entries(jsonnet.text) :
          <<e[1], e[2], e[3]>> # DocKey(jsonnet'.args.repo, jsonnet'.args.pkg,
                                        jsonnet'.args.version)
          => e \in Entries(jsonnet'.text)
C38_PublishFrame == [][C38_Step]_vars

(***************************************************************************)
(* Properties of the server process.                                       *)
(***************************************************************************)
\* the handler acts on the request it holds
Handles == http.pc = "validate" /\ http'.pc # "validate"
\* what ValidateWebhook makes of the request the handler holds
Validated == ValidateWebhook(conf.config.secret, http.req)
\* a reference refs/heads/<name>, and its <name>
HeadsPrefix == <<"refs", Slash, "heads", Slash>>
IsHeadsReference(ref) ==
    Len(ref) > Len(HeadsPrefix) /\ SubSeq(ref, 1, Len(HeadsPrefix)) = HeadsPrefix
NameOf(ref) == SubSeq(ref, Len(HeadsPrefix) + 1, Len(ref))
\* a check of the whole configuration starts in goroutine g
SweepStarts(g) ==
    /\ run[g].pc = "idle"
    /\ run'[g].pc = "stat" /\ run'[g].idx = 1
    /\ run'[g].call.branch = ConfigBranches[1]
    /\ \A w \in Goroutines \ {g} : run'[w] = run[w]

C13_Step ==
    /\ Handles
    /\ conf.config.secret # ""
    /\ \/ http.req.signature = NoSignature
       \/ http.req.signature # GenerateSignature(http.req.body, conf.config.secret)
    => /\ http'.pc = "idle"
       /\ http'.resp.status = 400
       /\ ~http'.parsed
       /\ run' = run /\ main' = main /\ sent' = sent /\ running' = running

\* C13: with a secret configured, a request without signature, or whose
\* signature is not the digest of its body under the secret, is answered 400,
\* its body is not handed to the JSON decoder, and nothing of the
\* synchronizer or the scheduler changes
C13_SignatureRequired == [][C13_Step]_vars

C13_Witness ==
    /\ conf.config.secret # ""
    /\ http.pc = "idle" /\ http.n > 0
    /\ http.resp = [status |-> 400, text |-> "invalid webhook signature"]
    /\ ~http.parsed
    /\ \A w \in Handlers \cup Sweepers : run[w].pc = "idle"

C14_Step ==
    /\ Handles
    /\ Validated.err = ""
    => /\ http.req.body.branch = << >> /\ IsHeadsReference(http.req.body.reference)
          => /\ http'.pc = "checking"
             /\ run'["hook"].call.branch = Text(NameOf(http.req.body.reference))
       /\ http.req.body.branch # << >>
          => /\ http'.pc = "checking"
             /\ run'["hook"].call.branch = Text(http.req.body.branch)

\* C14: an accepted payload with an empty branch and a reference
\* refs/heads/<name> has <name>, whole, checked; a branch that is given is the
\* one checked
C14_BranchResolution == [][C14_Step]_vars

C15_State ==
    /\ http.pc = "checking"
       => /\ http.resp = NoResponse
          /\ run["hook"].pc # "idle" /\ run["hook"].idx = 0
    /\ http.pc # "checking" => run["hook"].pc = "idle"
    /\ \A g \in Sweepers :
         /\ run[g].pc \notin {"idle", "report"}
            => run[g].call.branch = ConfigBranches[run[g].idx]
         /\ run[g].pc = "report" => run[g].idx = Len(ConfigBranches)

C15_Step ==
    /\ Handles /\ Validated.err = "" /\ Validated.payload.branch # << >>
       => /\ http'.pc = "checking"
          /\ run'["hook"].pc = "stat"
          /\ run'["hook"].call.branch = Text(Validated.payload.branch)
          /\ \A w \in Goroutines \ {"hook"} : run'[w] = run[w]
    /\ Handles /\ Validated.err = "" /\ Validated.payload.branch = << >> /\ running
       => /\ \E g \in Sweepers : SweepStarts(g)
          /\ http'.resp.status = 200
    /\ Handles /\ Validated.err = "" /\ Validated.payload.branch = << >> /\ ~running
       => /\ run' = run /\ main' = main /\ sent' = sent
          /\ http'.pc = "idle" /\ http'.resp.status = 500
    /\ http.pc = "checking"
       => /\ run'["hook"].pc # "idle"
             => run'["hook"].call.branch = run["hook"].call.branch
          /\ http'.pc # "checking"
             => /\ run["hook"].pc = "returned" /\ run["hook"].call.done
                /\ http'.resp.status = IF run["hook"].err THEN 500 ELSE 200

\* C15: an accepted trigger with a resolved branch starts the check of that
\* branch in the handler and nothing else, the branch stays the one checked,
\* and the answer comes when the check has returned; without a resolved branch
\* and with the scheduler running, a check that goes through the configured
\* branches from the first to the last starts and the answer is 200; with the
\* scheduler not running the answer is 500 and no check starts
C15_TriggerDispatch == []C15_State /\ [][C15_Step]_vars

C15_Witness ==
    /\ boot.pc = "stopping"
    /\ http.pc = "idle" /\ http.n > 1
    /\ http.resp = [status |-> 500, text |-> "scheduler is not running"]
    /\ sent # << >>

====
